---------------------------- MODULE Spec2Model ----------------------------
(***************************************************************************)
(* Model of the PL/pgSQL block rebalancers of the repository:             *)
(*   scripts/repair_rewriter_parser.py   (token-aware rewriter)           *)
(*   scripts/repair_plpgsql_parser_v2.py (regex tokenizer + stack, v2)    *)
(*   scripts/repair_plpgsql_parser_v3.py (v3)                             *)
(*   scripts/repair_plpgsql_parser_v4.py (v4)                             *)
(*                                                                         *)
(* Text is a sequence of characters (one-character strings).  Every       *)
(* scanner and regular expression of the scripts is modelled on that      *)
(* character sequence.  The inputs are concatenations of a bounded number *)
(* of SQL fragments ("phrases") drawn from a small set per specification. *)
(***************************************************************************)
EXTENDS Integers, Sequences, FiniteSets, TLC

VARIABLES
    input,   \* the block text handed to the rebalancer (a sequence of characters)
    tokens,  \* the token list of the running pass
    i,       \* 1-based index of the next token (Python index + 1)
    out,     \* tokens / text parts emitted so far
    stack,   \* the frame stack of the running pass
    pc,      \* "run" while the token loop runs, "done" after it returned
    result,  \* the returned text once pc = "done"
    prog,    \* which script runs: "rewriter", "v2", "v3" or "v4"
    bodies,  \* v2-v4: the protected spans, in placeholder order (key n is bodies[n+1])
    ev       \* history: what the last loop iteration did, and the state before it

vars == <<input, tokens, i, out, stack, pc, result, prog, bodies, ev>>

---------------------------------------------------------------------------
(* Characters                                                              *)

UpperLetters ==
    {"A","B","C","D","E","F","G","H","I","J","K","L","M",
     "N","O","P","Q","R","S","T","U","V","W","X","Y","Z"}

LowerLetters ==
    {"a","b","c","d","e","f","g","h","i","j","k","l","m",
     "n","o","p","q","r","s","t","u","v","w","x","y","z"}

Digits == {"0","1","2","3","4","5","6","7","8","9"}

\* [A-Za-z0-9_], also the characters around which \b finds no boundary
WordChars == UpperLetters \cup LowerLetters \cup Digits \cup {"_"}

\* [A-Za-z_]
WordStartChars == UpperLetters \cup LowerLetters \cup {"_"}

\* str.isspace() / \s on the characters the inputs use
SpaceChars == {" ", "\n", "\t", "\r"}

UpperOf ==
    [c \in LowerLetters |->
        CASE c = "a" -> "A" [] c = "b" -> "B" [] c = "c" -> "C" [] c = "d" -> "D"
          [] c = "e" -> "E" [] c = "f" -> "F" [] c = "g" -> "G" [] c = "h" -> "H"
          [] c = "i" -> "I" [] c = "j" -> "J" [] c = "k" -> "K" [] c = "l" -> "L"
          [] c = "m" -> "M" [] c = "n" -> "N" [] c = "o" -> "O" [] c = "p" -> "P"
          [] c = "q" -> "Q" [] c = "r" -> "R" [] c = "s" -> "S" [] c = "t" -> "T"
          [] c = "u" -> "U" [] c = "v" -> "V" [] c = "w" -> "W" [] c = "x" -> "X"
          [] c = "y" -> "Y" [] c = "z" -> "Z"]

\* str.upper()
Upper(s) == [k \in 1..Len(s) |-> IF s[k] \in LowerLetters THEN UpperOf[s[k]] ELSE s[k]]

\* the concatenation of a sequence of texts: ''.join(parts)
RECURSIVE Join(_)
Join(parts) == IF parts = <<>> THEN <<>> ELSE Head(parts) \o Join(Tail(parts))

\* first index >= j whose character is not in S (Len(s)+1 when the run reaches the end)
RECURSIVE SpanEnd(_, _, _)
SpanEnd(s, j, S) == IF j <= Len(s) /\ s[j] \in S THEN SpanEnd(s, j + 1, S) ELSE j

\* s.startswith(p, i)
StartsWith(s, p, k) == k >= 1 /\ k + Len(p) - 1 <= Len(s) /\ SubSeq(s, k, k + Len(p) - 1) = p

\* s.find(p, i): the first index >= k where p starts, 0 when there is none (Python's -1)
RECURSIVE Find(_, _, _)
Find(s, p, k) ==
    IF k + Len(p) - 1 > Len(s) THEN 0
    ELSE IF StartsWith(s, p, k) THEN k
    ELSE Find(s, p, k + 1)

---------------------------------------------------------------------------
(* repair_rewriter_parser.py: tokenize                                     *)

Token(kind, text) == [kind |-> kind, text |-> text]

\* mutant: the scan of a quoted literal also stops at the end of the line
RECURSIVE QuoteEndLine(_, _, _)
QuoteEndLine(sql, j, q) ==
    IF j > Len(sql) THEN j
    ELSE IF sql[j] = "\n" THEN j
    ELSE IF sql[j] = q
         THEN IF j + 1 <= Len(sql) /\ sql[j + 1] = q
              THEN QuoteEndLine(sql, j + 2, q)
              ELSE j + 1
         ELSE QuoteEndLine(sql, j + 1, q)

\* the scan of a quoted literal opened at j-1 by quote q: the index after its end
RECURSIVE QuoteEnd(_, _, _)
QuoteEnd(sql, j, q) ==
    IF j > Len(sql) THEN j
    ELSE IF sql[j] = q
         THEN IF j + 1 <= Len(sql) /\ sql[j + 1] = q
              THEN QuoteEnd(sql, j + 2, q)
              ELSE j + 1
         ELSE QuoteEnd(sql, j + 1, q)

\* re.match(r"\$([A-Za-z0-9_]*)\$", sql[k:]): index of the closing $ of the tag, 0 if no match
DollarTagEnd(sql, k) ==
    IF k <= Len(sql) /\ sql[k] = "$"
    THEN LET j == SpanEnd(sql, k + 1, WordChars)
         IN  IF j <= Len(sql) /\ sql[j] = "$" THEN j ELSE 0
    ELSE 0

RECURSIVE TokenizeFrom(_, _)
TokenizeFrom(sql, k) ==
    IF k > Len(sql) THEN <<>>
    ELSE
    LET n  == Len(sql)
        ch == sql[k]
    IN
    IF ch \in SpaceChars THEN
        LET j == SpanEnd(sql, k, SpaceChars)
        IN  <<Token("WS", SubSeq(sql, k, j - 1))>> \o TokenizeFrom(sql, j)
    ELSE IF StartsWith(sql, <<"-", "-">>, k) THEN
        LET j == Find(sql, <<"\n">>, k)
        IN  IF j = 0
            THEN <<Token("COMMENT", SubSeq(sql, k, n))>>
            ELSE <<Token("COMMENT", SubSeq(sql, k, j))>> \o TokenizeFrom(sql, j + 1)
    ELSE IF StartsWith(sql, <<"/", "*">>, k) THEN
        LET j == Find(sql, <<"*", "/">>, k + 2)
        IN  IF j = 0
            THEN <<Token("COMMENT", SubSeq(sql, k, n))>>
            ELSE <<Token("COMMENT", SubSeq(sql, k, j + 1))>> \o TokenizeFrom(sql, j + 2)
    ELSE IF ch = "$" /\ DollarTagEnd(sql, k) # 0 THEN
        LET j == DollarTagEnd(sql, k)
        IN  <<Token("DOLLAR", SubSeq(sql, k, j))>> \o TokenizeFrom(sql, j + 1)
    ELSE IF ch = "'" THEN
        LET j == QuoteEnd(sql, k + 1, "'")
        IN  <<Token("STRING", SubSeq(sql, k, j - 1))>> \o TokenizeFrom(sql, j)
    ELSE IF ch = "\"" THEN
        LET j == QuoteEnd(sql, k + 1, "\"")
        IN  <<Token("DQ", SubSeq(sql, k, j - 1))>> \o TokenizeFrom(sql, j)
    ELSE IF ch \in WordStartChars THEN
        LET j == SpanEnd(sql, k, WordChars)
        IN  <<Token("WORD", SubSeq(sql, k, j - 1))>> \o TokenizeFrom(sql, j)
    ELSE <<Token("SYM", <<ch>>)>> \o TokenizeFrom(sql, k + 1)

tokenize(sql) == TokenizeFrom(sql, 1)

\* mutant: the kind of the token is not looked at and quotes around the text are ignored
is_wordUnquoted(tok, text) ==
    Upper(SelectSeq(tok.text, LAMBDA c : c \notin {"'", "\""})) = Upper(text)

is_word(tok, text) == tok.kind = "WORD" /\ Upper(tok.text) = Upper(text)

reconstruct(toks) == Join([k \in 1..Len(toks) |-> toks[k].text])

---------------------------------------------------------------------------
(* repair_rewriter_parser.py: process_tokens                               *)

kwDO    == <<"D", "O">>
kwBEGIN == <<"B", "E", "G", "I", "N">>
kwIF    == <<"I", "F">>
kwLOOP  == <<"L", "O", "O", "P">>
kwCASE  == <<"C", "A", "S", "E">>
kwEND   == <<"E", "N", "D">>

\* a stack entry (type, tag/name); NoTag stands for Python's None
NoTag == <<>>
Frame(type, tag) == [type |-> type, tag |-> tag]

SkipKinds == {"WS", "COMMENT"}

\* first index >= j of a token that is neither WS nor COMMENT (Len(toks)+1 if none)
RECURSIVE SkipWsComments(_, _)
SkipWsComments(toks, j) ==
    IF j <= Len(toks) /\ toks[j].kind \in SkipKinds
    THEN SkipWsComments(toks, j + 1)
    ELSE j

\* peek_next(idx): index of the next non-WS/comment token after idx; > Len(toks) is None
peek_next(toks, idx) == SkipWsComments(toks, idx + 1)

IsSemicolon(toks, k) == k <= Len(toks) /\ toks[k].kind = "SYM" /\ toks[k].text = <<";">>

\* the branch taken by one iteration of the while loop on toks[k]
IsDoOpen(toks, k) ==
    /\ is_word(toks[k], kwDO)
    /\ peek_next(toks, k) <= Len(toks)
    /\ toks[peek_next(toks, k)].kind = "DOLLAR"

OpenerType(tok) ==
    IF is_word(tok, kwBEGIN) THEN "BEGIN"
    ELSE IF is_word(tok, kwIF) THEN "IF"
    ELSE IF is_word(tok, kwLOOP) THEN "LOOP"
    ELSE IF is_word(tok, kwCASE) THEN "CASE"
    ELSE "NONE"

IsOpener(toks, k) == ~IsDoOpen(toks, k) /\ OpenerType(toks[k]) # "NONE"

IsEnd(toks, k) ==
    ~IsDoOpen(toks, k) /\ OpenerType(toks[k]) = "NONE" /\ is_word(toks[k], kwEND)

\* lines 199-208: the END form found by looking past whitespace and comments
EndType(toks, k) ==
    LET j == SkipWsComments(toks, k + 1)
    IN  IF j <= Len(toks) /\ toks[j].kind = "WORD" /\ Upper(toks[j].text) = kwIF
        THEN "END_IF"
        ELSE IF j <= Len(toks) /\ toks[j].kind = "DOLLAR"
        THEN "END_DOLLAR"
        ELSE "END"

EndTag(toks, k) ==
    LET j == SkipWsComments(toks, k + 1)
    IN  IF EndType(toks, k) = "END_DOLLAR" THEN toks[j].text ELSE NoTag

\* mutant: dollar tags are not compared (all tags collapsed into one)
FrameMatchesAnyTag(fr, endType, endTag) ==
    \/ endType = "END_IF" /\ fr.type = "IF"
    \/ endType = "END_DOLLAR" /\ fr.type = "DO"
    \/ endType = "END" /\ fr.type = "BEGIN"

FrameMatches(fr, endType, endTag) ==
    \/ endType = "END_IF" /\ fr.type = "IF"
    \/ endType = "END_DOLLAR" /\ fr.type = "DO" /\ fr.tag = endTag
    \/ endType = "END" /\ fr.type = "BEGIN"

\* mutant: only the top of the stack is looked at
MatchIdxTopOnly(stk, endType, endTag) ==
    IF stk # <<>> /\ FrameMatches(stk[Len(stk)], endType, endTag) THEN Len(stk) ELSE 0

\* lines 211-219: the topmost matching frame, searched from the top down; 0 is None
MatchIdx(stk, endType, endTag) ==
    LET hits == {k \in 1..Len(stk) : FrameMatches(stk[k], endType, endTag)}
    IN  IF hits = {} THEN 0 ELSE CHOOSE k \in hits : \A h \in hits : h <= k

\* lines 164-172
StepDo(toks, k, o, stk) ==
    LET j == SkipWsComments(toks, k + 1)
    IN  [i     |-> j + 1,
         out   |-> o \o SubSeq(toks, k, j),
         stack |-> Append(stk, Frame("DO", toks[j].text))]

\* lines 175-196
StepOpen(toks, k, o, stk) ==
    [i     |-> k + 1,
     out   |-> Append(o, toks[k]),
     stack |-> Append(stk, Frame(OpenerType(toks[k]), NoTag))]

\* lines 221-229: drop the unmatched END, its IF/DOLLAR suffix and an immediate semicolon
StepEndDrop(toks, k, o, stk) ==
    LET j  == SkipWsComments(toks, k + 1)
        et == EndType(toks, k)
        i1 == IF et \in {"END_IF", "END_DOLLAR"} /\ j <= Len(toks) THEN j + 1 ELSE k + 1
        i2 == IF IsSemicolon(toks, i1) THEN i1 + 1 ELSE i1
    IN  [i |-> i2, out |-> o, stack |-> stk]

\* mutant: an END IF; is synthesized for every IF frame popped above the match
StepEndMatchSynth(toks, k, o, stk) ==
    LET et == EndType(toks, k)
        m  == MatchIdx(stk, et, EndTag(toks, k))
        k1 == SkipWsComments(toks, k + 1)
        k2 == IF k1 <= Len(toks) /\ (et = "END_IF" \/ et = "END_DOLLAR") THEN k1 + 1 ELSE k1
        k3 == SkipWsComments(toks, k2)
        k4 == IF IsSemicolon(toks, k3) THEN k3 + 1 ELSE k3
        above == SelectSeq(SubSeq(stk, m + 1, Len(stk)), LAMBDA fr : fr.type = "IF")
        synth == [x \in 1..Len(above) |->
                     Token("WORD", kwEND \o <<" ">> \o kwIF \o <<";", " ">>)]
    IN  [i     |-> k4,
         out   |-> o \o synth \o SubSeq(toks, k, k4 - 1),
         stack |-> SubSeq(stk, 1, m - 1)]

\* lines 231-247: pop the stack down to the match, emit END, suffix and semicolon
StepEndMatch(toks, k, o, stk) ==
    LET et == EndType(toks, k)
        m  == MatchIdx(stk, et, EndTag(toks, k))
        k1 == SkipWsComments(toks, k + 1)
        k2 == IF k1 <= Len(toks)
                 /\ \/ et = "END_IF" /\ is_word(toks[k1], kwIF)
                    \/ et = "END_DOLLAR" /\ toks[k1].kind = "DOLLAR"
              THEN k1 + 1 ELSE k1
        k3 == SkipWsComments(toks, k2)
        k4 == IF IsSemicolon(toks, k3) THEN k3 + 1 ELSE k3
    IN  [i     |-> k4,
         out   |-> o \o SubSeq(toks, k, k4 - 1),
         stack |-> SubSeq(stk, 1, m - 1)]

\* lines 249-251
StepCopy(toks, k, o, stk) ==
    [i |-> k + 1, out |-> Append(o, toks[k]), stack |-> stk]

\* one iteration of the while loop of process_tokens
Branch(toks, k, stk) ==
    IF IsDoOpen(toks, k) THEN "DoOpen"
    ELSE IF IsOpener(toks, k) THEN "Open"
    ELSE IF IsEnd(toks, k)
         THEN IF MatchIdx(stk, EndType(toks, k), EndTag(toks, k)) = 0
              THEN "EndDrop" ELSE "EndMatch"
    ELSE "Copy"

Step(toks, k, o, stk) ==
    LET b == Branch(toks, k, stk)
    IN  IF b = "DoOpen" THEN StepDo(toks, k, o, stk)
        ELSE IF b = "Open" THEN StepOpen(toks, k, o, stk)
        ELSE IF b = "EndDrop" THEN StepEndDrop(toks, k, o, stk)
        ELSE IF b = "EndMatch" THEN StepEndMatch(toks, k, o, stk)
        ELSE StepCopy(toks, k, o, stk)

\* the whole loop from index k: the out list it returns
RECURSIVE RunTokens(_, _, _, _)
RunTokens(toks, k, o, stk) ==
    IF k > Len(toks) THEN o
    ELSE LET s == Step(toks, k, o, stk)
         IN  RunTokens(toks, s.i, s.out, s.stack)

process_tokens(toks) == RunTokens(toks, 1, <<>>, <<>>)

process_block_text(body) == reconstruct(process_tokens(tokenize(body)))

---------------------------------------------------------------------------
(* repair_plpgsql_parser_v2.py: protect_dollars, STRING, tokenize          *)

DigitChar(d) == <<"0", "1", "2", "3", "4", "5", "6", "7", "8", "9">>[d + 1]

\* str(n)
RECURSIVE Decimal(_)
Decimal(n) == IF n < 10 THEN <<DigitChar(n)>> ELSE Decimal(n \div 10) \o <<DigitChar(n % 10)>>

\* f"__DOLLAR_{n}__"
DollarKey(n) == <<"_", "_", "D", "O", "L", "L", "A", "R", "_">> \o Decimal(n) \o <<"_", "_">>

\* first index >= q where a dollar tag \$[A-Za-z0-9_]*\$ starts, 0 if none
RECURSIVE FirstTagFrom(_, _)
FirstTagFrom(s, q) ==
    IF q > Len(s) THEN 0
    ELSE IF DollarTagEnd(s, q) # 0 THEN q
    ELSE FirstTagFrom(s, q + 1)

\* DOLLAR_Q = \$[A-Za-z0-9_]*\$[\s\S]*?\$[A-Za-z0-9_]*\$ matched at k: index of the
\* last character of the match, 0 if there is no match at k.  The closing tag is the
\* first dollar tag after the opening one, whatever its content.
DollarQEnd(s, k) ==
    LET o == DollarTagEnd(s, k)
    IN  IF o = 0 THEN 0
        ELSE LET q == FirstTagFrom(s, o + 1)
             IN  IF q = 0 THEN 0 ELSE DollarTagEnd(s, q)

\* DOLLAR_Q.sub(repl, s) from index k on, n bodies stored so far
RECURSIVE ProtectFrom(_, _, _)
ProtectFrom(s, k, n) ==
    IF k > Len(s) THEN [text |-> <<>>, bodies |-> <<>>]
    ELSE LET e == DollarQEnd(s, k)
         IN  IF e # 0
             THEN LET r == ProtectFrom(s, e + 1, n + 1)
                  IN  [text |-> DollarKey(n) \o r.text,
                       bodies |-> <<SubSeq(s, k, e)>> \o r.bodies]
             ELSE LET r == ProtectFrom(s, k + 1, n)
                  IN  [text |-> <<s[k]>> \o r.text, bodies |-> r.bodies]

protect_dollars(s) == ProtectFrom(s, 1, 0)

\* s.replace(key, val)
RECURSIVE ReplaceAll(_, _, _)
ReplaceAll(s, key, val) ==
    IF Len(s) < Len(key) \/ key = <<>> THEN s
    ELSE IF StartsWith(s, key, 1)
    THEN val \o ReplaceAll(SubSeq(s, Len(key) + 1, Len(s)), key, val)
    ELSE <<Head(s)>> \o ReplaceAll(Tail(s), key, val)

\* for k, v in bodies.items(): s = s.replace(k, v), from key n on
RECURSIVE RestoreFrom(_, _, _)
RestoreFrom(s, bds, n) ==
    IF n >= Len(bds) THEN s
    ELSE RestoreFrom(ReplaceAll(s, DollarKey(n), bds[n + 1]), bds, n + 1)

restore_dollars(s, bds) == RestoreFrom(s, bds, 0)

\* STRING = '([^']|'')*' opened at p-1: the greedy scan from p.  A lone quote ends
\* the match; at the end of the text the match backtracks to the first quote of the
\* last '' pair it consumed (lastPair), and fails (0) when there is none.
RECURSIVE StringEnd(_, _, _)
StringEnd(s, p, lastPair) ==
    IF p > Len(s) THEN lastPair
    ELSE IF s[p] # "'" THEN StringEnd(s, p + 1, lastPair)
    ELSE IF p + 1 <= Len(s) /\ s[p + 1] = "'" THEN StringEnd(s, p + 2, p)
    ELSE p

StringMatchEnd(s, k) == IF s[k] = "'" THEN StringEnd(s, k + 1, 0) ELSE 0

StrPlaceholder == <<"'", "_", "_", "S", "T", "R", "_", "_", "'">>

\* STRING.sub("'__STR__'", s) from index k on
RECURSIVE StringSubFrom(_, _)
StringSubFrom(s, k) ==
    IF k > Len(s) THEN <<>>
    ELSE LET e == StringMatchEnd(s, k)
         IN  IF e # 0 THEN StrPlaceholder \o StringSubFrom(s, e + 1)
             ELSE <<s[k]>> \o StringSubFrom(s, k + 1)

StringSub(s) == StringSubFrom(s, 1)

IsWordAt(s, k) == k >= 1 /\ k <= Len(s) /\ s[k] \in WordChars

\* \b between the characters k-1 and k
BoundaryBefore(s, k) == IsWordAt(s, k - 1) # IsWordAt(s, k)

\* the keyword p, case-insensitively, at index k
StartsWithCI(s, p, k) ==
    k >= 1 /\ k + Len(p) - 1 <= Len(s) /\ Upper(SubSeq(s, k, k + Len(p) - 1)) = p

\* END\s+X (withSemi: END\s+X;) followed by \b, at k: index of the last character, or 0
EndFormEnd(s, k, X, withSemi) ==
    IF ~StartsWithCI(s, kwEND, k) THEN 0
    ELSE LET w == SpanEnd(s, k + 3, SpaceChars)
             e == w + Len(X) - 1
             f == IF withSemi THEN e + 1 ELSE e
         IN  IF /\ w > k + 3
                /\ StartsWithCI(s, X, w)
                /\ (withSemi => (f <= Len(s) /\ s[f] = ";"))
                /\ BoundaryBefore(s, f + 1)
             THEN f ELSE 0

\* a single keyword X followed by \b, at k
WordEnd(s, k, X) ==
    IF StartsWithCI(s, X, k) /\ BoundaryBefore(s, k + Len(X)) THEN k + Len(X) - 1 ELSE 0

\* the first alternative in a sequence of match ends that matched (is not 0)
RECURSIVE FirstHit(_)
FirstHit(ends) ==
    IF ends = <<>> THEN 0
    ELSE IF Head(ends) # 0 THEN Head(ends)
    ELSE FirstHit(Tail(ends))

\* KW = \b(END\s+IF|END\s+LOOP|END\s+CASE|END\s+IF;|END\s+LOOP;|END\s+CASE;|BEGIN|END|IF|LOOP|CASE)\b
\* matched at k: index of the last character of the match, 0 if no match at k
KwEndV2(s, k) ==
    IF ~BoundaryBefore(s, k) THEN 0
    ELSE FirstHit(<< EndFormEnd(s, k, kwIF, FALSE), EndFormEnd(s, k, kwLOOP, FALSE),
                     EndFormEnd(s, k, kwCASE, FALSE), EndFormEnd(s, k, kwIF, TRUE),
                     EndFormEnd(s, k, kwLOOP, TRUE), EndFormEnd(s, k, kwCASE, TRUE),
                     WordEnd(s, k, kwBEGIN), WordEnd(s, k, kwEND), WordEnd(s, k, kwIF),
                     WordEnd(s, k, kwLOOP), WordEnd(s, k, kwCASE) >>)

Part(typ, txt) == [typ |-> typ, txt |-> txt]

\* tokenize: KW.finditer(s) from index k on, pos the end of the previous match + 1
RECURSIVE TokenizeV2From(_, _, _)
TokenizeV2From(s, k, pos) ==
    IF k > Len(s)
    THEN IF pos <= Len(s) THEN <<Part("other", SubSeq(s, pos, Len(s)))>> ELSE <<>>
    ELSE LET e == KwEndV2(s, k)
         IN  IF e = 0 THEN TokenizeV2From(s, k + 1, pos)
             ELSE (IF k > pos THEN <<Part("other", SubSeq(s, pos, k - 1))>> ELSE <<>>)
                  \o <<Part("kw", SubSeq(s, k, e))>>
                  \o TokenizeV2From(s, e + 1, e + 1)

tokenize_v2(s) == TokenizeV2From(s, 1, 1)

\* t.strip()
Strip(t) ==
    LET a == SpanEnd(t, 1, SpaceChars)
        keep == {k \in 1..Len(t) : t[k] \notin SpaceChars}
        b == IF keep = {} THEN 0 ELSE CHOOSE k \in keep : \A h \in keep : h <= k
    IN  SubSeq(t, a, b)

\* re.sub(r"\s+", " ", t)
RECURSIVE CollapseSpace(_)
CollapseSpace(t) ==
    IF t = <<>> THEN <<>>
    ELSE IF Head(t) \in SpaceChars
    THEN <<" ">> \o CollapseSpace(SubSeq(t, SpanEnd(t, 1, SpaceChars), Len(t)))
    ELSE <<Head(t)>> \o CollapseSpace(Tail(t))

\* re.sub(r";+$", "", T)
RECURSIVE StripSemis(_)
StripSemis(t) ==
    IF t # <<>> /\ t[Len(t)] = ";" THEN StripSemis(SubSeq(t, 1, Len(t) - 1)) ELSE t

normalize_kw(t) == Strip(StripSemis(Upper(CollapseSpace(Strip(t)))))

---------------------------------------------------------------------------
(* repair_plpgsql_parser_v2.py: process_block                              *)

nl == <<"\n">>

\* closer_for
closer_for(opener) ==
    IF opener = "IF" THEN kwEND \o <<" ">> \o kwIF \o <<";">>
    ELSE IF opener = "LOOP" THEN kwEND \o <<" ">> \o kwLOOP \o <<";">>
    ELSE IF opener = "CASE" THEN kwEND \o <<" ">> \o kwCASE \o <<";">>
    ELSE kwEND \o <<";">>

\* the opener a normalized keyword pushes ("NONE": it is no opener)
OpenerOf(K) ==
    IF K = kwIF THEN "IF"
    ELSE IF K = kwLOOP THEN "LOOP"
    ELSE IF K = kwCASE THEN "CASE"
    ELSE IF K = kwBEGIN THEN "BEGIN"
    ELSE "NONE"

\* the opener a normalized END form closes ("NONE": it is no END form)
ClosedBy(K) ==
    IF K = kwEND \o <<" ">> \o kwIF THEN "IF"
    ELSE IF K = kwEND \o <<" ">> \o kwLOOP THEN "LOOP"
    ELSE IF K = kwEND \o <<" ">> \o kwCASE THEN "CASE"
    ELSE IF K = kwEND THEN "BEGIN"
    ELSE "NONE"

\* the branch one iteration of the for loop takes on toks[k]
BranchV2(toks, k, stk) ==
    IF toks[k].typ = "other" THEN "Other"
    ELSE LET K == normalize_kw(toks[k].txt)
         IN  IF OpenerOf(K) # "NONE" THEN "Open"
             ELSE IF ClosedBy(K) # "NONE"
             THEN IF stk # <<>> /\ stk[Len(stk)] = ClosedBy(K) THEN "Close" ELSE "Drop"
             ELSE "Fallback"

\* mutant: a dropped closer leaves a note in the output
StepV2Noting(toks, k, o, stk) ==
    LET b == BranchV2(toks, k, stk)
        K == normalize_kw(toks[k].txt)
    IN  IF b = "Other" \/ b = "Fallback"
        THEN [i |-> k + 1, out |-> Append(o, toks[k].txt), stack |-> stk]
        ELSE IF b = "Open"
        THEN [i |-> k + 1, out |-> Append(o, toks[k].txt), stack |-> Append(stk, OpenerOf(K))]
        ELSE IF b = "Close"
        THEN [i |-> k + 1, out |-> Append(o, closer_for(ClosedBy(K))),
              stack |-> SubSeq(stk, 1, Len(stk) - 1)]
        ELSE [i |-> k + 1, out |-> Append(o, <<"-", "-", "d", "r", "o", "p", "\n">>),
              stack |-> stk]

\* lines 88-135
StepV2(toks, k, o, stk) ==
    LET b == BranchV2(toks, k, stk)
        K == normalize_kw(toks[k].txt)
    IN  IF b = "Other" \/ b = "Fallback"
        THEN [i |-> k + 1, out |-> Append(o, toks[k].txt), stack |-> stk]
        ELSE IF b = "Open"
        THEN [i |-> k + 1, out |-> Append(o, toks[k].txt), stack |-> Append(stk, OpenerOf(K))]
        ELSE IF b = "Close"
        THEN [i |-> k + 1, out |-> Append(o, closer_for(ClosedBy(K))),
              stack |-> SubSeq(stk, 1, Len(stk) - 1)]
        ELSE [i |-> k + 1, out |-> o, stack |-> stk]

\* mutant: the closing loop takes the outermost frame first
StepCloseV2Fifo(o, stk) ==
    [out   |-> Append(o, nl \o closer_for(stk[1]) \o nl),
     stack |-> SubSeq(stk, 2, Len(stk))]

\* lines 137-142: one iteration of "while stack"
StepCloseV2(o, stk) ==
    [out   |-> Append(o, nl \o closer_for(stk[Len(stk)]) \o nl),
     stack |-> SubSeq(stk, 1, Len(stk) - 1)]

\* the for loop from token k on: the out list, the stack, and the closers dropped
RECURSIVE RunV2(_, _, _, _, _)
RunV2(toks, k, o, stk, drops) ==
    IF k > Len(toks) THEN [out |-> o, stack |-> stk, drops |-> drops]
    ELSE LET st == StepV2(toks, k, o, stk)
         IN  RunV2(toks, st.i, st.out, st.stack,
                   IF BranchV2(toks, k, stk) = "Drop" THEN drops + 1 ELSE drops)

RECURSIVE CloseAllV2(_, _)
CloseAllV2(o, stk) ==
    IF stk = <<>> THEN o
    ELSE LET st == StepCloseV2(o, stk) IN CloseAllV2(st.out, st.stack)

\* lines 80-83
PrepareV2(block) ==
    LET pr == protect_dollars(block)
    IN  [tokens |-> tokenize_v2(StringSub(pr.text)), bodies |-> pr.bodies]

process_block_v2(block) ==
    LET pre == PrepareV2(block)
        run == RunV2(pre.tokens, 1, <<>>, <<>>, 0)
    IN  restore_dollars(Join(CloseAllV2(run.out, run.stack)), pre.bodies)

\* what the tokenizer and stack algorithm of process_block do on a text: the number
\* of closers dropped and the number of closers appended at the end
DropsV2(block) == RunV2(PrepareV2(block).tokens, 1, <<>>, <<>>, 0).drops
SynthV2(block) == Len(RunV2(PrepareV2(block).tokens, 1, <<>>, <<>>, 0).stack)

\* the diagnostic records process_block returns: line 146 returns the repaired text and
\* nothing else
ReturnedDiagnostics == <<>>

---------------------------------------------------------------------------
(* repair_plpgsql_parser_v3.py: protect_patterns, tokenize_with_kw,        *)
(* process_block                                                           *)

kwTHEN  == <<"T", "H", "E", "N">>
kwELSIF == <<"E", "L", "S", "I", "F">>
kwELSE  == <<"E", "L", "S", "E">>
kwWHEN  == <<"W", "H", "E", "N">>

\* f"__STR_{n}__"
StrKey(n) == <<"_", "_", "S", "T", "R", "_">> \o Decimal(n) \o <<"_", "_">>

\* STRING.sub(s_repl, s2) from index k on, n strings stored so far
RECURSIVE ProtectStringsFrom(_, _, _)
ProtectStringsFrom(s, k, n) ==
    IF k > Len(s) THEN [text |-> <<>>, strs |-> <<>>]
    ELSE LET e == StringMatchEnd(s, k)
         IN  IF e # 0
             THEN LET r == ProtectStringsFrom(s, e + 1, n + 1)
                  IN  [text |-> StrKey(n) \o r.text, strs |-> <<SubSeq(s, k, e)>> \o r.strs]
             ELSE LET r == ProtectStringsFrom(s, k + 1, n)
                  IN  [text |-> <<s[k]>> \o r.text, strs |-> r.strs]

protect_patterns(s) ==
    LET d  == ProtectFrom(s, 1, 0)
        st == ProtectStringsFrom(d.text, 1, 0)
    IN  [text |-> st.text, bodies |-> d.bodies, strs |-> st.strs]

RECURSIVE RestoreStrsFrom(_, _, _)
RestoreStrsFrom(s, strs, n) ==
    IF n >= Len(strs) THEN s
    ELSE RestoreStrsFrom(ReplaceAll(s, StrKey(n), strs[n + 1]), strs, n + 1)

\* for k, v in {**bodies, **strs}.items(): s = s.replace(k, v)
restore_patterns(s, bds, strs) == RestoreStrsFrom(RestoreFrom(s, bds, 0), strs, 0)

\* \b(K1|K2|...)\b matched at k for the keywords kws, tried in order: index of the
\* last character of the match, 0 if no match at k
KwWordEnd(s, k, kws) ==
    IF ~BoundaryBefore(s, k) THEN 0
    ELSE FirstHit([x \in 1..Len(kws) |-> WordEnd(s, k, kws[x])])

\* KW_RE
KW_RE == <<kwIF, kwTHEN, kwELSIF, kwELSE, kwLOOP, kwCASE, kwWHEN, kwBEGIN, kwEND>>

\* tokenize_with_kw: KW_RE.finditer(s) from index k on, pos the end of the previous match + 1
RECURSIVE TokenizeKwFrom(_, _, _)
TokenizeKwFrom(s, k, pos) ==
    IF k > Len(s)
    THEN IF pos <= Len(s) THEN <<Part("text", SubSeq(s, pos, Len(s)))>> ELSE <<>>
    ELSE LET e == KwWordEnd(s, k, KW_RE)
         IN  IF e = 0 THEN TokenizeKwFrom(s, k + 1, pos)
             ELSE (IF k > pos THEN <<Part("text", SubSeq(s, pos, k - 1))>> ELSE <<>>)
                  \o <<Part("kw", Upper(SubSeq(s, k, e)))>>
                  \o TokenizeKwFrom(s, e + 1, e + 1)

tokenize_with_kw(s) == TokenizeKwFrom(s, 1, 1)

\* the name of a keyword token that opens a frame ("NONE" otherwise)
KwOpener(txt) ==
    IF txt = kwIF THEN "IF"
    ELSE IF txt = kwLOOP THEN "LOOP"
    ELSE IF txt = kwCASE THEN "CASE"
    ELSE IF txt = kwBEGIN THEN "BEGIN"
    ELSE "NONE"

\* the branch one iteration of the for loop of v3 takes on toks[k]
BranchV3(toks, k, stk) ==
    IF toks[k].typ = "text" THEN "Text"
    ELSE IF KwOpener(toks[k].txt) # "NONE" THEN "Open"
    ELSE IF toks[k].txt \in {kwELSIF, kwTHEN, kwELSE, kwWHEN} THEN "Intra"
    ELSE IF toks[k].txt = kwEND THEN (IF stk = <<>> THEN "EndDrop" ELSE "EndPop")
    ELSE "Fallback"

\* the text v3 emits for an opening keyword (lines 80-94)
OpenTextV3(txt) ==
    IF txt = kwIF THEN kwIF
    ELSE IF txt = kwBEGIN THEN <<"\n">> \o kwBEGIN
    ELSE <<" ">> \o txt

\* lines 75-111
StepV3(toks, k, o, stk) ==
    LET b == BranchV3(toks, k, stk)
        txt == toks[k].txt
    IN  IF b = "Text" THEN [i |-> k + 1, out |-> Append(o, txt), stack |-> stk]
        ELSE IF b = "Open"
        THEN [i |-> k + 1, out |-> Append(o, OpenTextV3(txt)),
              stack |-> Append(stk, KwOpener(txt))]
        ELSE IF b = "EndDrop"
        THEN [i |-> k + 1, out |-> Append(o, <<>>), stack |-> stk]
        ELSE IF b = "EndPop"
        THEN [i |-> k + 1,
              out |-> o \o << <<" ">> \o kwEND, <<" ">> \o closer_for(stk[Len(stk)]) >>,
              stack |-> SubSeq(stk, 1, Len(stk) - 1)]
        ELSE [i |-> k + 1, out |-> Append(o, <<" ">> \o txt), stack |-> stk]

RECURSIVE RunV3(_, _, _, _)
RunV3(toks, k, o, stk) ==
    IF k > Len(toks) THEN [out |-> o, stack |-> stk]
    ELSE LET st == StepV3(toks, k, o, stk) IN RunV3(toks, st.i, st.out, st.stack)

process_block_v3(block) ==
    LET pr  == protect_patterns(block)
        run == RunV3(tokenize_with_kw(pr.text), 1, <<>>, <<>>)
    IN  restore_patterns(Join(CloseAllV2(run.out, run.stack)), pr.bodies, pr.strs)

---------------------------------------------------------------------------
(* repair_plpgsql_parser_v4.py: protect_dollars_in_block, rebalance_block  *)

\* mutant: an opener without a closing tag is left in the text and the scan goes on
RECURSIVE ProtectV4FromNoEof(_, _, _)
ProtectV4FromNoEof(s, k, idx) ==
    IF k > Len(s) THEN [text |-> <<>>, bodies |-> <<>>]
    ELSE LET o == DollarTagEnd(s, k)
             tag == SubSeq(s, k, o)
             j   == Find(s, tag, o + 1)
         IN  IF o # 0 /\ j # 0
             THEN LET r == ProtectV4FromNoEof(s, j + Len(tag), idx + 1)
                  IN  [text |-> DollarKey(idx) \o r.text,
                       bodies |-> <<SubSeq(s, k, j + Len(tag) - 1)>> \o r.bodies]
             ELSE LET r == ProtectV4FromNoEof(s, k + 1, idx)
                  IN  [text |-> <<s[k]>> \o r.text, bodies |-> r.bodies]

\* protect_dollars_in_block from index k on, idx spans stored so far.  A span runs
\* from a dollar tag to the next occurrence of the same tag, or to the end of the
\* text when there is none.
RECURSIVE ProtectV4From(_, _, _)
ProtectV4From(s, k, idx) ==
    IF k > Len(s) THEN [text |-> <<>>, bodies |-> <<>>]
    ELSE LET o == DollarTagEnd(s, k)
         IN  IF o # 0
             THEN LET tag == SubSeq(s, k, o)
                      j   == Find(s, tag, o + 1)
                  IN  IF j # 0
                      THEN LET r == ProtectV4From(s, j + Len(tag), idx + 1)
                           IN  [text |-> DollarKey(idx) \o r.text,
                                bodies |-> <<SubSeq(s, k, j + Len(tag) - 1)>> \o r.bodies]
                      ELSE [text |-> DollarKey(idx), bodies |-> <<SubSeq(s, k, Len(s))>>]
             ELSE LET r == ProtectV4From(s, k + 1, idx)
                  IN  [text |-> <<s[k]>> \o r.text, bodies |-> r.bodies]

protect_dollars_in_block(block_text) == ProtectV4From(block_text, 1, 0)

\* v4's restore_dollars
restore_dollars_v4(s, mapping) == RestoreFrom(s, mapping, 0)

\* KW of v4
KW_V4 == <<kwIF, kwLOOP, kwCASE, kwBEGIN, kwEND>>

\* Python's s[a:b] on 0-based offsets
PySlice(s, a, b) ==
    LET hi == IF b < Len(s) THEN b ELSE Len(s)
    IN  IF a >= hi THEN <<>> ELSE SubSeq(s, a + 1, hi)

\* lines 124-132: KW.finditer(safe2) from index k on; the text tokens are cut out of
\* safe at the offsets found in safe2
RECURSIVE TokenizeV4From(_, _, _, _)
TokenizeV4From(safe, safe2, k, pos) ==
    IF k > Len(safe2)
    THEN IF pos <= Len(safe2) THEN <<Part("text", PySlice(safe, pos - 1, Len(safe)))>> ELSE <<>>
    ELSE LET e == KwWordEnd(safe2, k, KW_V4)
         IN  IF e = 0 THEN TokenizeV4From(safe, safe2, k + 1, pos)
             ELSE (IF k > pos THEN <<Part("text", PySlice(safe, pos - 1, k - 1))>> ELSE <<>>)
                  \o <<Part("kw", Upper(SubSeq(safe2, k, e)))>>
                  \o TokenizeV4From(safe, safe2, e + 1, e + 1)

\* lines 120-132
PrepareV4(text) ==
    LET pr == protect_dollars_in_block(text)
    IN  [tokens |-> TokenizeV4From(pr.text, StringSub(pr.text), 1, 1), bodies |-> pr.bodies]

BranchV4(toks, k, stk) ==
    IF toks[k].typ = "text" THEN "Text"
    ELSE IF KwOpener(toks[k].txt) # "NONE" THEN "Open"
    ELSE IF toks[k].txt = kwEND THEN (IF stk = <<>> THEN "EndDrop" ELSE "EndPop")
    ELSE "Fallback"

\* lines 136-151
StepV4(toks, k, o, stk) ==
    LET b == BranchV4(toks, k, stk)
        txt == toks[k].txt
    IN  IF b = "Text" THEN [i |-> k + 1, out |-> Append(o, txt), stack |-> stk]
        ELSE IF b = "Open"
        THEN [i |-> k + 1, out |-> Append(o, txt), stack |-> Append(stk, KwOpener(txt))]
        ELSE IF b = "EndDrop"
        THEN [i |-> k + 1, out |-> o, stack |-> stk]
        ELSE IF b = "EndPop"
        THEN [i |-> k + 1, out |-> Append(o, <<" ">> \o closer_for(stk[Len(stk)])),
              stack |-> SubSeq(stk, 1, Len(stk) - 1)]
        ELSE [i |-> k + 1, out |-> Append(o, <<" ">> \o txt), stack |-> stk]

RECURSIVE RunV4(_, _, _, _)
RunV4(toks, k, o, stk) ==
    IF k > Len(toks) THEN [out |-> o, stack |-> stk]
    ELSE LET st == StepV4(toks, k, o, stk) IN RunV4(toks, st.i, st.out, st.stack)

rebalance_block(text) ==
    LET pre == PrepareV4(text)
        run == RunV4(pre.tokens, 1, <<>>, <<>>)
    IN  restore_dollars_v4(Join(CloseAllV2(run.out, run.stack)), pre.bodies)

---------------------------------------------------------------------------
(* Inputs: concatenations of at most n phrases of a phrase set             *)

RECURSIVE Texts(_, _)
Texts(P, n) ==
    IF n = 0 THEN {<<>>}
    ELSE LET S == Texts(P, n - 1) IN S \cup {s \o p : s \in S, p \in P}

sp == <<" ">>
semi == <<";">>
tagEmpty == <<"$", "$">>
tagA == <<"$", "a", "$">>

\* the most phrases an input of the rewriter is made of
MaxPhrases == 4

PhrasesRW ==
    { kwDO \o sp \o tagEmpty \o sp, kwDO \o sp \o tagA \o sp,
      kwBEGIN \o sp, kwIF \o sp, kwLOOP \o sp, kwEND \o sp, kwEND \o sp \o kwIF \o sp,
      kwEND \o sp \o tagEmpty \o semi, kwEND \o sp \o tagA \o semi }

---------------------------------------------------------------------------
(* The rewriter as a state machine: one action per branch of the while     *)
(* loop of process_tokens, and one for the return of process_block_text.   *)

Event(act) ==
    [act |-> act, i |-> i, stack |-> stack, out |-> out]

InitRW ==
    /\ prog = "rewriter"
    /\ bodies = <<>>
    /\ input \in Texts(PhrasesRW, MaxPhrases)
    /\ tokens = tokenize(input)
    /\ i = 1
    /\ out = <<>>
    /\ stack = <<>>
    /\ pc = "run"
    /\ result = <<>>
    /\ ev = [act |-> "start", i |-> 0, stack |-> <<>>, out |-> <<>>]

Looping == pc = "run" /\ i <= Len(tokens)

Apply(s, act) ==
    /\ i' = s.i
    /\ out' = s.out
    /\ stack' = s.stack
    /\ ev' = Event(act)
    /\ UNCHANGED <<input, tokens, pc, result, prog, bodies>>

RwDoOpen ==
    /\ Looping
    /\ Branch(tokens, i, stack) = "DoOpen"
    /\ Apply(StepDo(tokens, i, out, stack), "DoOpen")

RwOpen ==
    /\ Looping
    /\ Branch(tokens, i, stack) = "Open"
    /\ Apply(StepOpen(tokens, i, out, stack), "Open")

RwEndDrop ==
    /\ Looping
    /\ Branch(tokens, i, stack) = "EndDrop"
    /\ Apply(StepEndDrop(tokens, i, out, stack), "EndDrop")

RwEndMatch ==
    /\ Looping
    /\ Branch(tokens, i, stack) = "EndMatch"
    /\ Apply(StepEndMatch(tokens, i, out, stack), "EndMatch")

RwCopy ==
    /\ Looping
    /\ Branch(tokens, i, stack) = "Copy"
    /\ Apply(StepCopy(tokens, i, out, stack), "Copy")

\* mutant: a closing END; is appended when frames are left on the stack
RwReturnClosing ==
    /\ pc = "run"
    /\ i > Len(tokens)
    /\ pc' = "done"
    /\ result' = reconstruct(out) \o (IF stack # <<>> THEN kwEND \o <<";">> ELSE <<>>)
    /\ ev' = Event("Return")
    /\ UNCHANGED <<input, tokens, i, out, stack, prog, bodies>>

\* the loop ends: process_tokens returns out, process_block_text reconstructs it
RwReturn ==
    /\ pc = "run"
    /\ i > Len(tokens)
    /\ pc' = "done"
    /\ result' = reconstruct(out)
    /\ ev' = Event("Return")
    /\ UNCHANGED <<input, tokens, i, out, stack, prog, bodies>>

NextRW == RwDoOpen \/ RwOpen \/ RwEndDrop \/ RwEndMatch \/ RwCopy \/ RwReturn

Spec == InitRW /\ [][NextRW]_vars

---------------------------------------------------------------------------
(* The rewriter on inputs with string literals, quoted identifiers and     *)
(* dollar-quoted text that is not the body of a DO block                   *)

\* the most phrases such an input is made of
MaxPhrasesLex == 4

tagQ == <<"$", "q", "$">>

PhrasesLex ==
    { kwDO \o sp \o tagEmpty \o sp, kwBEGIN \o sp, kwIF \o sp, kwEND \o sp,
      kwEND \o sp \o tagEmpty \o semi,
      <<"'">> \o kwEND \o sp \o kwIF \o semi \o <<"'">>, <<"'">>,
      <<"\"">> \o kwBEGIN \o <<"\"">>, tagQ \o sp }

InitLex ==
    /\ prog = "rewriter"
    /\ bodies = <<>>
    /\ input \in Texts(PhrasesLex, MaxPhrasesLex)
    /\ tokens = tokenize(input)
    /\ i = 1
    /\ out = <<>>
    /\ stack = <<>>
    /\ pc = "run"
    /\ result = <<>>
    /\ ev = [act |-> "start", i |-> 0, stack |-> <<>>, out |-> <<>>]

SpecLex == InitLex /\ [][NextRW]_vars

---------------------------------------------------------------------------
(* tokenize of the rewriter as a state machine: i is the scan position in  *)
(* input, tokens the list built so far; one action per branch of the while *)
(* loop (lines 58-134) and the return (line 135).                          *)

\* the branch the while loop takes at position k
TokBranch(sql, k) ==
    IF sql[k] \in SpaceChars THEN "WS"
    ELSE IF StartsWith(sql, <<"-", "-">>, k) THEN "LineComment"
    ELSE IF StartsWith(sql, <<"/", "*">>, k) THEN "BlockComment"
    ELSE IF sql[k] = "$" /\ DollarTagEnd(sql, k) # 0 THEN "Dollar"
    ELSE IF sql[k] = "'" THEN "String"
    ELSE IF sql[k] = "\"" THEN "DQ"
    ELSE IF sql[k] \in WordStartChars THEN "Word"
    ELSE "Sym"

\* the kind of the token a branch appends
TokKind(b) ==
    CASE b = "WS" -> "WS"
      [] b \in {"LineComment", "BlockComment"} -> "COMMENT"
      [] b = "Dollar" -> "DOLLAR"
      [] b = "String" -> "STRING"
      [] b = "DQ" -> "DQ"
      [] b = "Word" -> "WORD"
      [] OTHER -> "SYM"

\* the position after the token that starts at k (Python's j, or n after a break)
TokEnd(sql, k) ==
    LET b == TokBranch(sql, k)
        n == Len(sql)
    IN  CASE b = "WS" -> SpanEnd(sql, k, SpaceChars)
          [] b = "LineComment" ->
                LET j == Find(sql, <<"\n">>, k) IN IF j = 0 THEN n + 1 ELSE j + 1
          [] b = "BlockComment" ->
                LET j == Find(sql, <<"*", "/">>, k + 2) IN IF j = 0 THEN n + 1 ELSE j + 2
          [] b = "Dollar" -> DollarTagEnd(sql, k) + 1
          [] b = "String" -> QuoteEnd(sql, k + 1, "'")
          [] b = "DQ" -> QuoteEnd(sql, k + 1, "\"")
          [] b = "Word" -> SpanEnd(sql, k, WordChars)
          [] OTHER -> k + 1

\* the most phrases an input of tokenize is made of
MaxPhrasesTok == 4

PhrasesTok ==
    { <<" ">>, <<"\n">>, <<"-", "-">>, <<"/", "*">>, <<"*", "/">>, <<"$">>, <<"a">>,
      <<"'">>, <<"\"">> }

InitTok ==
    /\ prog = "tokenize"
    /\ input \in Texts(PhrasesTok, MaxPhrasesTok)
    /\ tokens = <<>>
    /\ i = 1
    /\ pc = "run"
    /\ out = <<>>
    /\ stack = <<>>
    /\ result = <<>>
    /\ bodies = <<>>
    /\ ev = [act |-> "start", i |-> 0, stack |-> <<>>, out |-> <<>>]

\* one iteration of the while loop that takes branch b
TokAppend(b) ==
    /\ pc = "run"
    /\ i <= Len(input)
    /\ TokBranch(input, i) = b
    /\ tokens' = Append(tokens, Token(TokKind(b), SubSeq(input, i, TokEnd(input, i) - 1)))
    /\ i' = TokEnd(input, i)
    /\ UNCHANGED <<input, out, stack, pc, result, prog, bodies, ev>>

TokWs == TokAppend("WS")

\* mutant: the newline that ends a line comment is skipped but left out of the token
TokLineCommentDropNl ==
    /\ pc = "run"
    /\ i <= Len(input)
    /\ TokBranch(input, i) = "LineComment"
    /\ tokens' = Append(tokens,
                    Token("COMMENT",
                          SelectSeq(SubSeq(input, i, TokEnd(input, i) - 1),
                                    LAMBDA c : c # "\n")))
    /\ i' = TokEnd(input, i)
    /\ UNCHANGED <<input, out, stack, pc, result, prog, bodies, ev>>

TokLineComment == TokAppend("LineComment")

TokBlockComment == TokAppend("BlockComment")

TokDollar == TokAppend("Dollar")

TokString == TokAppend("String")

TokDQ == TokAppend("DQ")

TokWord == TokAppend("Word")

TokSym == TokAppend("Sym")

\* line 135: the loop is over, tokenize returns the list
TokReturn ==
    /\ pc = "run"
    /\ i > Len(input)
    /\ pc' = "done"
    /\ UNCHANGED <<input, tokens, i, out, stack, result, prog, bodies, ev>>

NextTok ==
    \/ TokWs \/ TokLineComment \/ TokBlockComment \/ TokDollar \/ TokString
    \/ TokDQ \/ TokWord \/ TokSym \/ TokReturn

\* tokenize is one sequential loop: it keeps running until it returns
SpecTok == InitTok /\ [][NextTok]_vars /\ WF_vars(NextTok)

---------------------------------------------------------------------------
(* v2 as a state machine: process_block after lines 80-86, one action per  *)
(* branch of the for loop, one per iteration of the closing loop, and the  *)
(* return.                                                                 *)

\* the most phrases an input of v2 is made of
MaxPhrasesV2 == 5

PhrasesV2 ==
    { <<"$">>, tagEmpty, kwEND \o sp \o kwIF, kwIF, kwBEGIN \o sp, kwEND \o semi }

InitV2 ==
    /\ prog = "v2"
    /\ input \in Texts(PhrasesV2, MaxPhrasesV2)
    /\ bodies = PrepareV2(input).bodies
    /\ tokens = PrepareV2(input).tokens
    /\ i = 1
    /\ out = <<>>
    /\ stack = <<>>
    /\ pc = "run"
    /\ result = <<>>
    /\ ev = [act |-> "start", i |-> 0, stack |-> <<>>, out |-> <<>>]

V2Other ==
    /\ Looping
    /\ BranchV2(tokens, i, stack) = "Other"
    /\ Apply(StepV2(tokens, i, out, stack), "Other")

V2Open ==
    /\ Looping
    /\ BranchV2(tokens, i, stack) = "Open"
    /\ Apply(StepV2(tokens, i, out, stack), "Open")

V2Close ==
    /\ Looping
    /\ BranchV2(tokens, i, stack) = "Close"
    /\ Apply(StepV2(tokens, i, out, stack), "Close")

V2Drop ==
    /\ Looping
    /\ BranchV2(tokens, i, stack) = "Drop"
    /\ Apply(StepV2(tokens, i, out, stack), "Drop")

\* lines 138-142: the for loop is over, a frame is left
V2Synth ==
    /\ pc = "run"
    /\ i > Len(tokens)
    /\ stack # <<>>
    /\ out' = StepCloseV2(out, stack).out
    /\ stack' = StepCloseV2(out, stack).stack
    /\ ev' = Event("Synth")
    /\ UNCHANGED <<input, tokens, i, pc, result, prog, bodies>>

\* lines 144-146
V2Return ==
    /\ pc = "run"
    /\ i > Len(tokens)
    /\ stack = <<>>
    /\ pc' = "done"
    /\ result' = restore_dollars(Join(out), bodies)
    /\ ev' = Event("Return")
    /\ UNCHANGED <<input, tokens, i, out, stack, prog, bodies>>

NextV2 == V2Other \/ V2Open \/ V2Close \/ V2Drop \/ V2Synth \/ V2Return

SpecV2 == InitV2 /\ [][NextV2]_vars

---------------------------------------------------------------------------
(* v2 on inputs with string literals and dollar tags of different content  *)

\* the most phrases such an input is made of
MaxPhrasesV2S == 4

PhrasesV2S ==
    { <<"'", "x", "'">>, tagEmpty, tagA, kwIF \o sp, kwBEGIN \o sp, kwEND \o semi,
      kwEND \o sp \o kwIF }

InitV2S ==
    /\ prog = "v2"
    /\ input \in Texts(PhrasesV2S, MaxPhrasesV2S)
    /\ bodies = PrepareV2(input).bodies
    /\ tokens = PrepareV2(input).tokens
    /\ i = 1
    /\ out = <<>>
    /\ stack = <<>>
    /\ pc = "run"
    /\ result = <<>>
    /\ ev = [act |-> "start", i |-> 0, stack |-> <<>>, out |-> <<>>]

SpecV2S == InitV2S /\ [][NextV2]_vars

---------------------------------------------------------------------------
(* v3 and v4 as a state machine: prog says which script runs.  One action  *)
(* per branch of the for loop of process_block (v3) and rebalance_block    *)
(* (v4), one per iteration of the closing loop, and the return.            *)

\* the most phrases an input of v3 and v4 is made of
MaxPhrasesV34 == 3

PhrasesV34 ==
    { kwIF \o sp, kwBEGIN \o sp, kwEND \o sp, kwEND \o semi, kwTHEN \o sp,
      <<"'", "x", "'">>, tagEmpty, tagEmpty \o tagEmpty }

InitV34 ==
    /\ prog \in {"v3", "v4"}
    /\ input \in Texts(PhrasesV34, MaxPhrasesV34)
    /\ bodies = IF prog = "v3"
                THEN [bodies |-> protect_patterns(input).bodies,
                      strs |-> protect_patterns(input).strs]
                ELSE PrepareV4(input).bodies
    /\ tokens = IF prog = "v3" THEN tokenize_with_kw(protect_patterns(input).text)
                ELSE PrepareV4(input).tokens
    /\ i = 1
    /\ out = <<>>
    /\ stack = <<>>
    /\ pc = "run"
    /\ result = <<>>
    /\ ev = [act |-> "start", i |-> 0, stack |-> <<>>, out |-> <<>>]

V3Text ==
    /\ prog = "v3" /\ Looping
    /\ BranchV3(tokens, i, stack) = "Text"
    /\ Apply(StepV3(tokens, i, out, stack), "Text")

V3Open ==
    /\ prog = "v3" /\ Looping
    /\ BranchV3(tokens, i, stack) = "Open"
    /\ Apply(StepV3(tokens, i, out, stack), "Open")

V3Intra ==
    /\ prog = "v3" /\ Looping
    /\ BranchV3(tokens, i, stack) = "Intra"
    /\ Apply(StepV3(tokens, i, out, stack), "Intra")

V3EndDrop ==
    /\ prog = "v3" /\ Looping
    /\ BranchV3(tokens, i, stack) = "EndDrop"
    /\ Apply(StepV3(tokens, i, out, stack), "EndDrop")

V3EndPop ==
    /\ prog = "v3" /\ Looping
    /\ BranchV3(tokens, i, stack) = "EndPop"
    /\ Apply(StepV3(tokens, i, out, stack), "EndPop")

\* v3's closing loop: the for loop is over, a frame is left
V3Synth ==
    /\ prog = "v3" /\ pc = "run"
    /\ i > Len(tokens)
    /\ stack # <<>>
    /\ out' = StepCloseV2(out, stack).out
    /\ stack' = StepCloseV2(out, stack).stack
    /\ ev' = Event("Synth")
    /\ UNCHANGED <<input, tokens, i, pc, result, prog, bodies>>

V3Return ==
    /\ prog = "v3" /\ pc = "run"
    /\ i > Len(tokens)
    /\ stack = <<>>
    /\ pc' = "done"
    /\ result' = restore_patterns(Join(out), bodies.bodies, bodies.strs)
    /\ ev' = Event("Return")
    /\ UNCHANGED <<input, tokens, i, out, stack, prog, bodies>>

V4Text ==
    /\ prog = "v4" /\ Looping
    /\ BranchV4(tokens, i, stack) = "Text"
    /\ Apply(StepV4(tokens, i, out, stack), "Text")

V4Open ==
    /\ prog = "v4" /\ Looping
    /\ BranchV4(tokens, i, stack) = "Open"
    /\ Apply(StepV4(tokens, i, out, stack), "Open")

V4EndDrop ==
    /\ prog = "v4" /\ Looping
    /\ BranchV4(tokens, i, stack) = "EndDrop"
    /\ Apply(StepV4(tokens, i, out, stack), "EndDrop")

V4EndPop ==
    /\ prog = "v4" /\ Looping
    /\ BranchV4(tokens, i, stack) = "EndPop"
    /\ Apply(StepV4(tokens, i, out, stack), "EndPop")

\* v4's closing loop: the for loop is over, a frame is left
V4Synth ==
    /\ prog = "v4" /\ pc = "run"
    /\ i > Len(tokens)
    /\ stack # <<>>
    /\ out' = StepCloseV2(out, stack).out
    /\ stack' = StepCloseV2(out, stack).stack
    /\ ev' = Event("Synth")
    /\ UNCHANGED <<input, tokens, i, pc, result, prog, bodies>>

V4Return ==
    /\ prog = "v4" /\ pc = "run"
    /\ i > Len(tokens)
    /\ stack = <<>>
    /\ pc' = "done"
    /\ result' = restore_dollars_v4(Join(out), bodies)
    /\ ev' = Event("Return")
    /\ UNCHANGED <<input, tokens, i, out, stack, prog, bodies>>

NextV34 ==
    \/ V3Text \/ V3Open \/ V3Intra \/ V3EndDrop \/ V3EndPop \/ V3Synth \/ V3Return
    \/ V4Text \/ V4Open \/ V4EndDrop \/ V4EndPop \/ V4Synth \/ V4Return

SpecV34 == InitV34 /\ [][NextV34]_vars

---------------------------------------------------------------------------
(* v2, v3 and v4 on inputs that leave IF, LOOP, CASE and BEGIN frames open *)

\* the most phrases an input of the closing loops is made of
MaxPhrasesClose == 3

PhrasesClose ==
    { kwIF \o sp, kwLOOP \o sp, kwCASE \o sp, kwBEGIN \o sp, kwEND \o semi,
      kwTHEN \o sp }

InitClose ==
    /\ prog \in {"v2", "v3", "v4"}
    /\ input \in Texts(PhrasesClose, MaxPhrasesClose)
    /\ bodies = IF prog = "v2" THEN PrepareV2(input).bodies
                ELSE IF prog = "v3"
                THEN [bodies |-> protect_patterns(input).bodies,
                      strs |-> protect_patterns(input).strs]
                ELSE PrepareV4(input).bodies
    /\ tokens = IF prog = "v2" THEN PrepareV2(input).tokens
                ELSE IF prog = "v3" THEN tokenize_with_kw(protect_patterns(input).text)
                ELSE PrepareV4(input).tokens
    /\ i = 1
    /\ out = <<>>
    /\ stack = <<>>
    /\ pc = "run"
    /\ result = <<>>
    /\ ev = [act |-> "start", i |-> 0, stack |-> <<>>, out |-> <<>>]

NextClose == (prog = "v2" /\ NextV2) \/ NextV34

SpecClose == InitClose /\ [][NextClose]_vars

---------------------------------------------------------------------------
(* The drivers of v2 (module body), v3 and v4 (main): the loop over the    *)
(* blocks.  input is the list of entries (statement id, block text), i the *)
(* next entry, out the list of texts collected, result the text written.   *)

kwCREATE   == <<"C", "R", "E", "A", "T", "E">>
kwFUNCTION == <<"F", "U", "N", "C", "T", "I", "O", "N">>

\* mutant: the search is case-sensitive
HasCreateFunctionCS(text) ==
    \E k \in 1..Len(text) :
        LET w == SpanEnd(text, k + Len(kwCREATE), SpaceChars)
        IN  /\ BoundaryBefore(text, k)
            /\ StartsWith(text, kwCREATE, k)
            /\ w > k + Len(kwCREATE)
            /\ StartsWith(text, kwFUNCTION, w)
            /\ BoundaryBefore(text, w + Len(kwFUNCTION))

\* re.search(r"\bCREATE\s+FUNCTION\b", repaired, flags=re.IGNORECASE)
HasCreateFunction(text) ==
    \E k \in 1..Len(text) :
        LET w == SpanEnd(text, k + Len(kwCREATE), SpaceChars)
        IN  /\ BoundaryBefore(text, k)
            /\ StartsWithCI(text, kwCREATE, k)
            /\ w > k + Len(kwCREATE)
            /\ StartsWithCI(text, kwFUNCTION, w)
            /\ BoundaryBefore(text, w + Len(kwFUNCTION))

\* "-- PROPOSED FIX: Reassembled function for failing statement "
HeaderText ==
    <<"-", "-", " ", "P", "R", "O", "P", "O", "S", "E", "D", " ", "F", "I",
      "X", ":", " ", "R", "e", "a", "s", "s", "e", "m", "b", "l", "e", "d",
      " ", "f", "u", "n", "c", "t", "i", "o", "n", " ", "f", "o", "r", " ",
      "f", "a", "i", "l", "i", "n", "g", " ", "s", "t", "a", "t", "e", "m",
      "e", "n", "t", " " >>

\* f"-- PROPOSED FIX: Reassembled function for failing statement {idx}\n"
Header(idx) == HeaderText \o Decimal(idx) \o nl

\* "DO $wrap$\nBEGIN\n"
WrapOpen ==
    <<"D", "O", " ", "$", "w", "r", "a", "p", "$", "\n", "B", "E", "G",
      "I", "N", "\n" >>

\* "\nEND $wrap$ LANGUAGE plpgsql;\n"
WrapClose ==
    <<"\n", "E", "N", "D", " ", "$", "w", "r", "a", "p", "$", " ", "L",
      "A", "N", "G", "U", "A", "G", "E", " ", "p", "l", "p", "g", "s", "q",
      "l", ";", "\n" >>

\* f"DO $wrap$\nBEGIN\n{repaired}\nEND $wrap$ LANGUAGE plpgsql;\n"
Wrapped(repaired) == WrapOpen \o repaired \o WrapClose

\* the repaired text of a block: process_block (v2, v3) or rebalance_block (v4)
Repaired(p, block) ==
    CASE p = "v2" -> process_block_v2(block)
      [] p = "v3" -> process_block_v3(block)
      [] OTHER -> rebalance_block(block)

\* what one iteration appends to out: v2 appends one text that ends in an extra
\* newline, v3 and v4 append the header and the body
Emit(p, idx, body) ==
    IF p = "v2" THEN <<Header(idx) \o body \o nl>> ELSE <<Header(idx), body>>

\* out before the loop: [prefix].  The file starts with the header of the first
\* block, so parts[0] is empty in v2 and v3; v4 takes text[:blocks[0]['start'] - 1],
\* the first header without its newline.
Prefix(p, entries) ==
    IF p = "v4" THEN HeaderText \o Decimal(entries[1].idx) ELSE <<>>

\* The entries are the blocks of a file in which every header starts a line: a block
\* that another header follows ends in a newline.
\* the most phrases a block of the drivers is made of
MaxPhrasesDrv == 2

PhrasesDrv ==
    { <<"C", "r", "e", "a", "t", "e", " ">>, kwCREATE \o nl, kwFUNCTION \o sp,
      kwIF \o sp \o <<"x">> }

Entry(idx, block) == [idx |-> idx, block |-> block]

InitDrv ==
    /\ prog \in {"v2", "v3", "v4"}
    /\ \E b1, b2 \in Texts(PhrasesDrv, MaxPhrasesDrv) :
          input \in { <<Entry(7, b1)>>, <<Entry(7, b1 \o nl), Entry(12, b2)>> }
    /\ i = 1
    /\ out = <<Prefix(prog, input)>>
    /\ pc = "run"
    /\ result = <<>>
    /\ tokens = <<>>
    /\ stack = <<>>
    /\ bodies = <<>>
    /\ ev = [act |-> "start", i |-> 0, stack |-> <<>>, out |-> <<>>]

\* the repaired text holds no CREATE FUNCTION: it is written inside the envelope
DrvWrap ==
    /\ pc = "run"
    /\ i <= Len(input)
    /\ ~HasCreateFunction(Repaired(prog, input[i].block))
    /\ out' = out \o Emit(prog, input[i].idx, Wrapped(Repaired(prog, input[i].block)))
    /\ i' = i + 1
    /\ ev' = Event("Wrap")
    /\ UNCHANGED <<input, tokens, stack, pc, result, prog, bodies>>

\* the repaired text holds CREATE FUNCTION: it is written as it is
DrvKeep ==
    /\ pc = "run"
    /\ i <= Len(input)
    /\ HasCreateFunction(Repaired(prog, input[i].block))
    /\ out' = out \o Emit(prog, input[i].idx, Repaired(prog, input[i].block))
    /\ i' = i + 1
    /\ ev' = Event("Keep")
    /\ UNCHANGED <<input, tokens, stack, pc, result, prog, bodies>>

\* OUT.write_text(''.join(out))
DrvWrite ==
    /\ pc = "run"
    /\ i > Len(input)
    /\ result' = Join(out)
    /\ pc' = "done"
    /\ ev' = Event("Write")
    /\ UNCHANGED <<input, tokens, i, out, stack, prog, bodies>>

NextDrv == DrvWrap \/ DrvKeep \/ DrvWrite

SpecDrv == InitDrv /\ [][NextDrv]_vars

---------------------------------------------------------------------------
(* repair_plpgsql_parser_v4.py: HEADER_RE, find_dollar_spans and           *)
(* block_boundaries_keep_dollars.  Offsets are Python's: 0-based, a range  *)
(* [start, end) holds the characters text[start+1] .. text[end].           *)

MinOf(S) == CHOOSE x \in S : \A y \in S : x <= y

\* the elements of a finite set of numbers in increasing order
RECURSIVE Sorted(_)
Sorted(S) == IF S = {} THEN <<>> ELSE <<MinOf(S)>> \o Sorted(S \ {MinOf(S)})

\* int(digits)
RECURSIVE DecimalValue(_)
DecimalValue(ds) ==
    IF ds = <<>> THEN 0
    ELSE 10 * DecimalValue(SubSeq(ds, 1, Len(ds) - 1))
         + (CHOOSE d \in 0..9 : DigitChar(d) = ds[Len(ds)])

\* offset of the first character at or after offset d that is not in S (Len(s) when
\* the run reaches the end)
RunEnd(s, d, S) ==
    LET stops == {q \in d..(Len(s) - 1) : s[q + 1] \notin S}
    IN  IF stops = {} THEN Len(s) ELSE MinOf(stops)

\* s.find("\n", d): offset of the first newline at or after offset d, -1 when none
NewlineFrom(s, d) ==
    LET hits == {q \in d..(Len(s) - 1) : s[q + 1] = "\n"}
    IN  IF hits = {} THEN -1 ELSE MinOf(hits)

\* HEADER_RE matched at offset p: (?m)^ holds at the start of the text and after a
\* newline, the literal is followed by at least one digit, and [^\n]*\n takes the rest
\* of the line with its newline.  The offset after the match, 0 when there is no match.
HeaderEnd(text, p) ==
    LET d == p + Len(HeaderText)
    IN  IF /\ (p = 0 \/ text[p] = "\n")
           /\ StartsWith(text, HeaderText, p + 1)
           /\ d < Len(text)
           /\ text[d + 1] \in Digits
           /\ NewlineFrom(text, d) # -1
        THEN NewlineFrom(text, d) + 1
        ELSE 0

\* int(m.group(1)) of the header matched at offset p
HeaderId(text, p) ==
    LET d == p + Len(HeaderText)
    IN  DecimalValue(SubSeq(text, d + 1, RunEnd(text, d, Digits)))

\* [(m.start(), m.end(), int(m.group(1))) for m in HEADER_RE.finditer(text)]: a match
\* starts a line and ends with it, so the matches are all the lines that match
HeaderMatches(text) ==
    LET starts == Sorted({p \in 0..(Len(text) - 1) : HeaderEnd(text, p) # 0})
    IN  [n \in 1..Len(starts) |->
            [start |-> starts[n], end |-> HeaderEnd(text, starts[n]),
             id |-> HeaderId(text, starts[n])]]

\* s.find(p, k) on offsets: the first offset >= k where p starts, -1 when none
str_find(s, p, k) ==
    LET hits == {q \in k..(Len(s) - Len(p)) : StartsWith(s, p, q + 1)}
    IN  IF hits = {} THEN -1 ELSE MinOf(hits)

\* find_dollar_spans from offset off on (the while loop of lines 29-46)
RECURSIVE SpansFrom(_, _)
SpansFrom(s, off) ==
    LET opens == {k \in off..(Len(s) - 1) : DollarTagEnd(s, k + 1) # 0}
    IN  IF opens = {} THEN <<>>
        ELSE LET start == MinOf(opens)
                 tag   == SubSeq(s, start + 1, DollarTagEnd(s, start + 1))
                 i2    == str_find(s, tag, start + Len(tag))
             IN  IF i2 # -1
                 THEN <<[s |-> start, e |-> i2 + Len(tag), tag |-> tag]>>
                      \o SpansFrom(s, i2 + Len(tag))
                 ELSE <<[s |-> start, e |-> Len(s), tag |-> tag]>>

find_dollar_spans(s) == SpansFrom(s, 0)

\* lines 56-60: the naive block of every header, from the end of the header to the
\* start of the next header or the end of the text
NaiveBlocks(text, headers) ==
    [n \in 1..Len(headers) |->
        [id |-> headers[n].id, start |-> headers[n].end,
         end |-> IF n < Len(headers) THEN headers[n + 1].start ELSE Len(text)]]

\* line 68: the span intersects the block
Intersects(b, span) == span.s < b.end /\ span.e > b.start

\* mutant: a block is widened at its end only
GrownEndOnly(b, span) ==
    IF Intersects(b, span)
    THEN [b EXCEPT !.end = IF span.e > b.end THEN span.e ELSE b.end]
    ELSE b

\* lines 68-75: the block after one span of the for loop was looked at
Grown(b, span) ==
    IF Intersects(b, span)
    THEN [b EXCEPT !.start = IF span.s < b.start THEN span.s ELSE b.start,
                   !.end = IF span.e > b.end THEN span.e ELSE b.end]
    ELSE b

\* lines 63-75 as a function: the for loop over the spans from span k on, repeated
\* while a pass changed the block
RECURSIVE ExpandBlock(_, _, _, _)
ExpandBlock(b, spans, k, changed) ==
    IF k > Len(spans)
    THEN IF changed THEN ExpandBlock(b, spans, 1, FALSE) ELSE b
    ELSE ExpandBlock(Grown(b, spans[k]), spans, k + 1,
                     changed \/ Grown(b, spans[k]) # b)

block_boundaries_keep_dollars(text) ==
    LET headers == HeaderMatches(text)
        spans   == find_dollar_spans(text)
        naive   == NaiveBlocks(text, headers)
    IN  [n \in 1..Len(headers) |-> ExpandBlock(naive[n], spans, 1, FALSE)]

---------------------------------------------------------------------------
(* block_boundaries_keep_dollars as a state machine.  input is the text,   *)
(* tokens the header matches, bodies the dollar spans, out the blocks, i   *)
(* the block the outer for loop is at, stack the one frame of its inner    *)
(* loops (the span the for loop is at, the flag changed), result the       *)
(* blocks returned.                                                        *)

\* the most phrases a file is made of
MaxPhrasesBlk == 4

PhrasesBlk == { Header(7), tagEmpty \o nl, tagA, <<"x", "\n">> }

LoopFrame(k, changed) == [span |-> k, changed |-> changed]

InitBlk ==
    /\ prog = "v4_blocks"
    /\ input \in Texts(PhrasesBlk, MaxPhrasesBlk)
    /\ tokens = HeaderMatches(input)
    /\ bodies = <<>>
    /\ out = <<>>
    /\ i = 1
    /\ stack = <<>>
    /\ pc = "headers"
    /\ result = <<>>
    /\ ev = [act |-> "start", i |-> 0, stack |-> <<>>, out |-> <<>>]

\* lines 52-53: no header, return []
BlkNoHeaders ==
    /\ pc = "headers"
    /\ tokens = <<>>
    /\ pc' = "done"
    /\ result' = <<>>
    /\ ev' = Event("NoHeaders")
    /\ UNCHANGED <<input, tokens, i, out, stack, prog, bodies>>

\* lines 54-60, and the entry into the loops of the first block
BlkBuild ==
    /\ pc = "headers"
    /\ tokens # <<>>
    /\ bodies' = find_dollar_spans(input)
    /\ out' = NaiveBlocks(input, tokens)
    /\ i' = 1
    /\ stack' = <<LoopFrame(1, FALSE)>>
    /\ pc' = "expand"
    /\ ev' = Event("Build")
    /\ UNCHANGED <<input, tokens, result, prog>>

InLoop == pc = "expand" /\ i <= Len(out)

\* lines 67-75: the span widens the block
BlkGrow ==
    /\ InLoop
    /\ stack[1].span <= Len(bodies)
    /\ Grown(out[i], bodies[stack[1].span]) # out[i]
    /\ out' = [out EXCEPT ![i] = Grown(out[i], bodies[stack[1].span])]
    /\ stack' = <<LoopFrame(stack[1].span + 1, TRUE)>>
    /\ ev' = Event("Grow")
    /\ UNCHANGED <<input, tokens, i, pc, result, prog, bodies>>

\* lines 67-75: the span leaves the block as it is
BlkSkip ==
    /\ InLoop
    /\ stack[1].span <= Len(bodies)
    /\ Grown(out[i], bodies[stack[1].span]) = out[i]
    /\ stack' = <<LoopFrame(stack[1].span + 1, stack[1].changed)>>
    /\ ev' = Event("Skip")
    /\ UNCHANGED <<input, tokens, i, out, pc, result, prog, bodies>>

\* lines 65-66: the pass over the spans changed the block, the while loop goes on
BlkAgain ==
    /\ InLoop
    /\ stack[1].span > Len(bodies)
    /\ stack[1].changed
    /\ stack' = <<LoopFrame(1, FALSE)>>
    /\ ev' = Event("Again")
    /\ UNCHANGED <<input, tokens, i, out, pc, result, prog, bodies>>

\* lines 63-65: the pass changed nothing, the outer loop takes the next block
BlkNext ==
    /\ InLoop
    /\ stack[1].span > Len(bodies)
    /\ ~stack[1].changed
    /\ i' = i + 1
    /\ stack' = <<LoopFrame(1, FALSE)>>
    /\ ev' = Event("Next")
    /\ UNCHANGED <<input, tokens, out, pc, result, prog, bodies>>

\* line 76
BlkReturn ==
    /\ pc = "expand"
    /\ i > Len(out)
    /\ pc' = "done"
    /\ result' = out
    /\ ev' = Event("Return")
    /\ UNCHANGED <<input, tokens, i, out, stack, prog, bodies>>

NextBlk ==
    BlkNoHeaders \/ BlkBuild \/ BlkGrow \/ BlkSkip \/ BlkAgain \/ BlkNext \/ BlkReturn

\* the loops of lines 63-75 and the return
ExpandLoop == BlkGrow \/ BlkSkip \/ BlkAgain \/ BlkNext \/ BlkReturn

\* the loops are sequential code: once they are entered, a step that can be taken is
\* taken
SpecBlk == InitBlk /\ [][NextBlk]_vars /\ WF_vars(ExpandLoop)

---------------------------------------------------------------------------
(* The programs from the input file to the output file: main of the        *)
(* rewriter, the module body of v2, main of v3 and of v4.  input is the    *)
(* text read, tokens the list of blocks split off it, i the next block,    *)
(* out the list of texts collected, result the text written; pc is "read"  *)
(* after the file was read, "run" in the loop over the blocks, "done" when *)
(* the output file was written and "aborted" when the program ended        *)
(* without writing it.                                                     *)

\* '-- PROPOSED FIX:', the marker of split_blocks
rwMarker == SubSeq(HeaderText, 1, 16)

\* the offsets where (?m)^-- PROPOSED FIX: matches
MarkerStarts(text) ==
    Sorted({p \in 0..(Len(text) - 1) :
               (p = 0 \/ text[p] = "\n") /\ StartsWith(text, rwMarker, p + 1)})

\* lines[0] if lines else '' for lines = p.splitlines()
FirstLine(p) ==
    IF NewlineFrom(p, 0) = -1 THEN p ELSE PySlice(p, 0, NewlineFrom(p, 0))

\* '\n'.join(lines[1:]): the text after the first line without the newline that ends
\* its last line
BodyLines(p) ==
    LET rest == IF NewlineFrom(p, 0) = -1 THEN <<>>
                ELSE PySlice(p, NewlineFrom(p, 0) + 1, Len(p))
    IN  IF rest # <<>> /\ rest[Len(rest)] = "\n" THEN SubSeq(rest, 1, Len(rest) - 1)
        ELSE rest

\* split_blocks: the text before the first marker, and (header line, body) of every
\* part after a marker
split_blocks(text) ==
    LET starts == MarkerStarts(text)
        part(n) == PySlice(text, starts[n] + Len(rwMarker),
                           IF n < Len(starts) THEN starts[n + 1] ELSE Len(text))
    IN  [header |-> IF starts = <<>> THEN text ELSE PySlice(text, 0, starts[1]),
         blocks |-> [n \in 1..Len(starts) |->
                        [hdr |-> FirstLine(part(n)), body |-> BodyLines(part(n))]]]

\* header_re.split(text) of v2 and v3: parts[0], and (int(parts[i]), parts[i+1])
SplitEntries(text) ==
    LET hs == HeaderMatches(text)
    IN  [prefix |-> IF hs = <<>> THEN text ELSE PySlice(text, 0, hs[1].start),
         entries |-> [n \in 1..Len(hs) |->
                        Entry(hs[n].id,
                              PySlice(text, hs[n].end,
                                      IF n < Len(hs) THEN hs[n + 1].start ELSE Len(text)))]]

\* text[:k] for any integer k (a negative k counts from the end)
PyPrefix(text, k) ==
    IF k >= 0 THEN PySlice(text, 0, k)
    ELSE IF Len(text) + k > 0 THEN PySlice(text, 0, Len(text) + k) ELSE <<>>

\* v4 main, lines 164-172: the prefix and the (id, block text) of every block
BlockEntries(text) ==
    LET bs == block_boundaries_keep_dollars(text)
    IN  [prefix |-> IF bs = <<>> THEN <<>> ELSE PyPrefix(text, bs[1].start - 1),
         entries |-> [n \in 1..Len(bs) |->
                        Entry(bs[n].id, PySlice(text, bs[n].start, bs[n].end))]]

\* sep.join(parts)
RECURSIVE JoinWith(_, _)
JoinWith(parts, sep) ==
    IF parts = <<>> THEN <<>>
    ELSE IF Len(parts) = 1 THEN parts[1]
    ELSE parts[1] \o sep \o JoinWith(Tail(parts), sep)

\* the most phrases an input file is made of
MaxPhrasesMain == 3

PhrasesMain ==
    { Header(7), kwIF \o sp \o <<"x", "\n">>, kwEND \o semi \o nl,
      tagEmpty \o <<"x">> \o tagEmpty \o nl }

InitMain ==
    /\ prog \in {"rewriter", "v2", "v3", "v4"}
    /\ input \in Texts(PhrasesMain, MaxPhrasesMain)
    /\ tokens = <<>>
    /\ i = 1
    /\ out = <<>>
    /\ stack = <<>>
    /\ pc = "read"
    /\ result = <<>>
    /\ bodies = <<>>
    /\ ev = [act |-> "start", i |-> 0, stack |-> <<>>, out |-> <<>>]

\* v2 lines 23-25, v3 lines 127-129, v4 lines 165-167: no header was found, the
\* program prints a message and ends; the output file is not written
MainAbort ==
    /\ pc = "read"
    /\ prog \in {"v2", "v3", "v4"}
    /\ HeaderMatches(input) = <<>>
    /\ pc' = "aborted"
    /\ ev' = Event("Abort")
    /\ UNCHANGED <<input, tokens, i, out, stack, result, prog, bodies>>

\* v2 lines 27-32 and 148, v3 lines 130-137, v4 lines 168-169
MainSplit ==
    /\ pc = "read"
    /\ prog \in {"v2", "v3", "v4"}
    /\ HeaderMatches(input) # <<>>
    /\ LET sp4 == IF prog = "v4" THEN BlockEntries(input) ELSE SplitEntries(input)
       IN  /\ tokens' = sp4.entries
           /\ out' = <<sp4.prefix>>
    /\ i' = 1
    /\ pc' = "run"
    /\ ev' = Event("Split")
    /\ UNCHANGED <<input, stack, result, prog, bodies>>

\* rewriter lines 263-264
MainSplitRw ==
    /\ pc = "read"
    /\ prog = "rewriter"
    /\ tokens' = split_blocks(input).blocks
    /\ out' = <<split_blocks(input).header>>
    /\ i' = 1
    /\ pc' = "run"
    /\ ev' = Event("SplitRw")
    /\ UNCHANGED <<input, stack, result, prog, bodies>>

\* one iteration of the loop over the blocks of v2, v3 and v4
MainBlock ==
    /\ pc = "run"
    /\ prog \in {"v2", "v3", "v4"}
    /\ i <= Len(tokens)
    /\ LET repaired == Repaired(prog, tokens[i].block)
       IN  out' = out \o Emit(prog, tokens[i].idx,
                              IF HasCreateFunction(repaired) THEN repaired
                              ELSE Wrapped(repaired))
    /\ i' = i + 1
    /\ ev' = Event("Block")
    /\ UNCHANGED <<input, tokens, stack, pc, result, prog, bodies>>

\* rewriter lines 265-270: f"-- PROPOSED FIX: {hdr}\n{new_body}\n"
MainBlockRw ==
    /\ pc = "run"
    /\ prog = "rewriter"
    /\ i <= Len(tokens)
    /\ out' = Append(out, rwMarker \o sp \o tokens[i].hdr \o nl
                          \o process_block_text(tokens[i].body) \o nl)
    /\ i' = i + 1
    /\ ev' = Event("BlockRw")
    /\ UNCHANGED <<input, tokens, stack, pc, result, prog, bodies>>

\* OUT.write_text(''.join(out)); the rewriter writes '\n'.join(out_blocks)
MainWrite ==
    /\ pc = "run"
    /\ i > Len(tokens)
    /\ result' = IF prog = "rewriter" THEN JoinWith(out, nl) ELSE Join(out)
    /\ pc' = "done"
    /\ ev' = Event("Write")
    /\ UNCHANGED <<input, tokens, i, out, stack, prog, bodies>>

NextMain ==
    MainAbort \/ MainSplit \/ MainSplitRw \/ MainBlock \/ MainBlockRw \/ MainWrite

SpecMain == InitMain /\ [][NextMain]_vars

---------------------------------------------------------------------------
(* run_sql.py: the loop over the statements (lines 126-157).  input is the *)
(* list statements, tokens the parsed arguments, i the index idx of the    *)
(* loop, out the lines written to the run log (statement index and what    *)
(* happened), pc "run" in the loop and "exit" after sys.exit, result the   *)
(* exit status.  Whether the database accepts a statement is the           *)
(* environment's choice.                                                   *)

\* s.splitlines() on texts whose only line break is "\n"
RECURSIVE SplitLines(_)
SplitLines(s) ==
    IF s = <<>> THEN <<>>
    ELSE IF NewlineFrom(s, 0) = -1 THEN <<s>>
    ELSE <<PySlice(s, 0, NewlineFrom(s, 0))>>
         \o SplitLines(PySlice(s, NewlineFrom(s, 0) + 1, Len(s)))

\* lines 113-122: the line does not count as content
CommentLine(line) ==
    LET stripped == Strip(line)
    IN  \/ stripped = <<>>
        \/ \A k \in 1..Len(stripped) : stripped[k] = ";"
        \/ StartsWith(stripped, <<"-", "-">>, 1)
        \/ /\ StartsWith(stripped, <<"/", "*">>, 1)
           /\ StartsWith(stripped, <<"*", "/">>, Len(stripped) - 1)

\* _is_only_comments
is_only_comments(s) ==
    \A n \in 1..Len(SplitLines(s)) : CommentLine(SplitLines(s)[n])

\* the statements sqlparse.split can hand over: stripped and not empty
StmtTexts ==
    { <<"x", ";">>, <<"-", "-", "c">>, <<"/", "*", "c", "*", "/">>, <<";">>,
      <<"-", "-", "c", "\n", "x", ";">>, <<"/", "*", "c", "\n", "c", "*", "/">> }

\* the most statements a file holds
MaxStmts == 3

RECURSIVE ListsOf(_, _)
ListsOf(S, n) ==
    IF n = 0 THEN {<<>>}
    ELSE LET L == ListsOf(S, n - 1) IN L \cup {Append(l, x) : l \in L, x \in S}

LogLine(idx, what) == [idx |-> idx, what |-> what]

InitSql ==
    /\ prog = "run_sql"
    /\ input \in ListsOf(StmtTexts, MaxStmts)
    /\ tokens \in {[tolerate_errors |-> FALSE], [tolerate_errors |-> TRUE]}
    /\ i = 1
    /\ out = <<>>
    /\ stack = <<>>
    /\ pc = "run"
    /\ result = <<>>
    /\ bodies = <<>>
    /\ ev = [act |-> "start", i |-> 0, stack |-> <<>>, out |-> <<>>]

InStatements == pc = "run" /\ i <= Len(input)

\* lines 127-130
SqlSkip ==
    /\ InStatements
    /\ is_only_comments(input[i])
    /\ out' = Append(out, LogLine(i, "SKIP"))
    /\ i' = i + 1
    /\ ev' = Event("Skip")
    /\ UNCHANGED <<input, tokens, stack, pc, result, prog, bodies>>

\* lines 131-139: the statement is executed without error
SqlExecOk ==
    /\ InStatements
    /\ ~is_only_comments(input[i])
    /\ out' = Append(out, LogLine(i, "OK"))
    /\ i' = i + 1
    /\ ev' = Event("ExecOk")
    /\ UNCHANGED <<input, tokens, stack, pc, result, prog, bodies>>

\* mutant: a tolerated error ends the run
SqlExecToleratedStop ==
    /\ InStatements
    /\ ~is_only_comments(input[i])
    /\ tokens.tolerate_errors
    /\ out' = Append(out, LogLine(i, "ERROR"))
    /\ i' = Len(input) + 1
    /\ ev' = Event("ExecTolerated")
    /\ UNCHANGED <<input, tokens, stack, pc, result, prog, bodies>>

\* lines 140-148: the statement raises, --tolerate-errors is set
SqlExecTolerated ==
    /\ InStatements
    /\ ~is_only_comments(input[i])
    /\ tokens.tolerate_errors
    /\ out' = Append(out, LogLine(i, "ERROR"))
    /\ i' = i + 1
    /\ ev' = Event("ExecTolerated")
    /\ UNCHANGED <<input, tokens, stack, pc, result, prog, bodies>>

\* lines 140-153 and 158-161: the statement raises, --tolerate-errors is not set; the
\* exception leaves the loop and the handler of line 158 exits with status 1
SqlExecHalt ==
    /\ InStatements
    /\ ~is_only_comments(input[i])
    /\ ~tokens.tolerate_errors
    /\ out' = Append(out, LogLine(i, "ERROR"))
    /\ pc' = "exit"
    /\ result' = 1
    /\ ev' = Event("ExecHalt")
    /\ UNCHANGED <<input, tokens, i, stack, prog, bodies>>

\* lines 154-157: the loop is over, sys.exit(0)
SqlComplete ==
    /\ pc = "run"
    /\ i > Len(input)
    /\ pc' = "exit"
    /\ result' = 0
    /\ ev' = Event("Complete")
    /\ UNCHANGED <<input, tokens, i, out, stack, prog, bodies>>

NextSql ==
    SqlSkip \/ SqlExecOk \/ SqlExecTolerated \/ SqlExecHalt \/ SqlComplete

SpecSql == InitSql /\ [][NextSql]_vars

---------------------------------------------------------------------------
(* run_proposed_functions.py.  input is the text of manual_review_fixes.sql, *)
(* tokens the list entries, bodies the parsed arguments (--limit), i the   *)
(* loop counter seq, out the lines written to the                          *)
(* log (seq and what happened), pc "read" before the entries are built,    *)
(* "run" in the loop, "done" at the end and "exit" after sys.exit(0).      *)
(* Whether the database accepts a block is the environment's choice.       *)

\* " (original statements "
OrigOpen ==
    <<" ", "(", "o", "r", "i", "g", "i", "n", "a", "l", " ", "s", "t", "a", "t", "e",
      "m", "e", "n", "t", "s", " ">>

\* (\d+)\.\.(\d+)\) at offset q: the two numbers, or <<>> when it does not match
RangeAt(text, q) ==
    LET e1 == RunEnd(text, q, Digits)
        e2 == RunEnd(text, e1 + 2, Digits)
    IN  IF /\ e1 > q
           /\ StartsWith(text, <<".", ".">>, e1 + 1)
           /\ e2 > e1 + 2
           /\ StartsWith(text, <<")">>, e2 + 1)
        THEN <<DecimalValue(SubSeq(text, q + 1, e1)),
               DecimalValue(SubSeq(text, e1 + 3, e2))>>
        ELSE <<>>

\* lines 52-56: header_pat.search(text) for the statement id idx, anywhere in the
\* text; <<>> is None
orig_range(text, idx) ==
    LET pre  == HeaderText \o Decimal(idx) \o OrigOpen
        hits == {p \in 0..(Len(text) - 1) :
                    StartsWith(text, pre, p + 1) /\ RangeAt(text, p + Len(pre)) # <<>>}
    IN  IF hits = {} THEN <<>> ELSE RangeAt(text, MinOf(hits) + Len(pre))

\* lines 45-57
FnEntries(text) ==
    LET es == SplitEntries(text).entries
    IN  [n \in 1..Len(es) |->
            [idx |-> es[n].idx, block |-> Strip(es[n].block),
             orig_range |-> orig_range(text, es[n].idx)]]

\* the word w, case-insensitively, at index k, followed by white space: the index
\* after the white space, 0 when it does not match
WordThenSpace(s, w, k) ==
    IF StartsWithCI(s, w, k) /\ SpanEnd(s, k + Len(w), SpaceChars) > k + Len(w)
    THEN SpanEnd(s, k + Len(w), SpaceChars)
    ELSE 0

kwOR == <<"O", "R">>
kwREPLACE == <<"R", "E", "P", "L", "A", "C", "E">>
kwPROCEDURE == <<"P", "R", "O", "C", "E", "D", "U", "R", "E">>

\* line 77: (?is)(CREATE\s+(OR\s+REPLACE\s+)?FUNCTION|DO\s+\$\$|
\*                CREATE\s+OR\s+REPLACE\s+PROCEDURE) found in the block
LooksLikeFunction(block) ==
    \E k \in 1..Len(block) :
        LET c  == WordThenSpace(block, kwCREATE, k)
            o  == IF c = 0 THEN 0 ELSE WordThenSpace(block, kwOR, c)
            r  == IF o = 0 THEN 0 ELSE WordThenSpace(block, kwREPLACE, o)
            d  == WordThenSpace(block, kwDO, k)
        IN  \/ c # 0 /\ StartsWithCI(block, kwFUNCTION, c)
            \/ r # 0 /\ StartsWithCI(block, kwFUNCTION, r)
            \/ d # 0 /\ StartsWith(block, tagEmpty, d)
            \/ r # 0 /\ StartsWithCI(block, kwPROCEDURE, r)

\* f"... statement 7 (original statements 1..2)\n"
HeaderWithRange ==
    HeaderText \o <<"7">> \o OrigOpen \o <<"1", ".", ".", "2", ")", "\n">>

\* the most phrases a file of proposed fixes is made of
MaxPhrasesFn == 4

PhrasesFn ==
    { Header(7), HeaderWithRange,
      kwDO \o sp \o tagEmpty \o <<"x">> \o tagEmpty \o semi \o nl, <<"x", ";", "\n">> }

InitFn ==
    /\ prog = "run_proposed_functions"
    /\ input \in Texts(PhrasesFn, MaxPhrasesFn)
    /\ bodies \in {[limit |-> 0], [limit |-> 1]}
    /\ tokens = <<>>
    /\ i = 1
    /\ out = <<>>
    /\ stack = <<>>
    /\ pc = "read"
    /\ result = <<>>
    /\ ev = [act |-> "start", i |-> 0, stack |-> <<>>, out |-> <<>>]

\* lines 59-61
FnNoEntries ==
    /\ pc = "read"
    /\ FnEntries(input) = <<>>
    /\ pc' = "exit"
    /\ ev' = Event("NoEntries")
    /\ UNCHANGED <<input, tokens, i, out, stack, result, prog, bodies>>

\* lines 63-70
FnStart ==
    /\ pc = "read"
    /\ FnEntries(input) # <<>>
    /\ tokens' = IF bodies.limit > 0 THEN PySlice(FnEntries(input), 0, bodies.limit)
                 ELSE FnEntries(input)
    /\ pc' = "run"
    /\ ev' = Event("Start")
    /\ UNCHANGED <<input, i, out, stack, result, prog, bodies>>

InBlocks == pc = "run" /\ i <= Len(tokens)

\* what one iteration does: the lines it writes to the log
Iteration(act, lines) ==
    /\ out' = out \o [n \in 1..Len(lines) |-> LogLine(i, lines[n])]
    /\ i' = i + 1
    /\ ev' = Event(act)
    /\ UNCHANGED <<input, tokens, stack, pc, result, prog, bodies>>

\* lines 77-79
FnSkip ==
    /\ InBlocks
    /\ ~LooksLikeFunction(tokens[i].block)
    /\ Iteration("Skip", <<"SKIP">>)

\* lines 81-96: the block is executed without error
FnSuccess ==
    /\ InBlocks
    /\ LooksLikeFunction(tokens[i].block)
    /\ Iteration("Success", <<"EXEC", "SUCCESS">>)

\* lines 97-121: the block raises, the original statements are executed without error
FnFallbackSuccess ==
    /\ InBlocks
    /\ LooksLikeFunction(tokens[i].block)
    /\ tokens[i].orig_range # <<>>
    /\ Iteration("FallbackSuccess",
                 <<"EXEC", "FIRST ATTEMPT ERROR", "FALLBACK EXEC", "FALLBACK SUCCESS">>)

\* lines 97-116 and 122-126: the block raises, and so do the original statements
FnFallbackError ==
    /\ InBlocks
    /\ LooksLikeFunction(tokens[i].block)
    /\ tokens[i].orig_range # <<>>
    /\ Iteration("FallbackError",
                 <<"EXEC", "FIRST ATTEMPT ERROR", "FALLBACK EXEC", "FALLBACK ERROR">>)

\* lines 97-103 and 127-129: the block raises, there is no original range
FnNoFallback ==
    /\ InBlocks
    /\ LooksLikeFunction(tokens[i].block)
    /\ tokens[i].orig_range = <<>>
    /\ Iteration("NoFallback", <<"EXEC", "FIRST ATTEMPT ERROR", "NO RANGE">>)

\* lines 131-134
FnFinish ==
    /\ pc = "run"
    /\ i > Len(tokens)
    /\ pc' = "done"
    /\ ev' = Event("Finish")
    /\ UNCHANGED <<input, tokens, i, out, stack, result, prog, bodies>>

NextFn ==
    \/ FnNoEntries \/ FnStart \/ FnSkip \/ FnSuccess \/ FnFallbackSuccess
    \/ FnFallbackError \/ FnNoFallback \/ FnFinish

SpecFn == InitFn /\ [][NextFn]_vars

---------------------------------------------------------------------------
(* apply_manual_fixes.py.  bodies are the parsed arguments (--user and     *)
(* --limit), input is the text of manual_review_fixes.sql, tokens the list *)
(* entries, i the loop counter seq, out everything the run does outside    *)
(* the process in the order it does it (reading the input file, lines      *)
(* appended to the log, attempted_fix files written, connections opened,   *)
(* blocks executed), result the exit status, pc "args" after parse_args,   *)
(* "run" in the loop, "done" at the end, "exit" after SystemExit(0) and    *)
(* "refused" after SystemExit(2).                                          *)

LowerOf == [c \in UpperLetters |-> CHOOSE l \in LowerLetters : UpperOf[l] = c]

\* str.lower()
Lower(s) == [k \in 1..Len(s) |-> IF s[k] \in UpperLetters THEN LowerOf[s[k]] ELSE s[k]]

userPostgres == <<"p", "o", "s", "t", "g", "r", "e", "s">>

\* the comparison of line 44 made on the user name as it was typed
RefusedUserExact(user) == user = userPostgres

\* lines 43-44
RefusedUser(user) == Lower(user) = userPostgres

kwLANGUAGE == <<"L", "A", "N", "G", "U", "A", "G", "E">>
kwPLPGSQL == <<"P", "L", "P", "G", "S", "Q", "L">>

\* lines 82-95
needs_do_wrap(b) ==
    LET has_if ==
            \/ \E k \in 1..Len(b) : KwWordEnd(b, k, <<kwIF>>) # 0
            \/ \E k \in 1..Len(b) : StartsWith(b, kwEND \o sp \o kwIF \o semi, k)
        create_function ==
            \E k \in 1..Len(b) :
                /\ WordThenSpace(b, kwCREATE, k) # 0
                /\ StartsWithCI(b, kwFUNCTION, WordThenSpace(b, kwCREATE, k))
        do_dollar ==
            \E k \in 1..Len(b) :
                LET d == WordThenSpace(b, kwDO, k)
                    e == SpanEnd(b, d + 1, WordChars)
                IN  /\ BoundaryBefore(b, k)
                    /\ d # 0
                    /\ StartsWith(b, <<"$">>, d)
                    /\ StartsWith(b, <<"$">>, e)
        language ==
            \E k \in 1..Len(b) :
                /\ WordThenSpace(b, kwLANGUAGE, k) # 0
                /\ StartsWithCI(b, kwPLPGSQL, WordThenSpace(b, kwLANGUAGE, k))
    IN  has_if /\ ~create_function /\ ~do_dollar /\ ~language

\* lines 50-56
FixEntries(text) ==
    LET es == SplitEntries(text).entries
    IN  [n \in 1..Len(es) |-> [idx |-> es[n].idx, block |-> Strip(es[n].block)]]

\* the most phrases a file of proposed fixes is made of
MaxPhrasesFix == 3

PhrasesFix ==
    { Header(7), kwIF \o sp \o <<"x">> \o semi \o nl,
      kwDO \o sp \o tagEmpty \o kwIF \o tagEmpty \o semi \o nl, <<"x", ";", "\n">> }

Users ==
    { userPostgres, <<"P">> \o Tail(userPostgres), Upper(userPostgres),
      userPostgres \o <<".", "x">> }

InitFix ==
    /\ prog = "apply_manual_fixes"
    /\ input \in Texts(PhrasesFix, MaxPhrasesFix)
    /\ bodies \in {[user |-> u, limit |-> l] : u \in Users, l \in {0, 1}}
    /\ tokens = <<>>
    /\ i = 1
    /\ out = <<>>
    /\ stack = <<>>
    /\ pc = "args"
    /\ result = <<>>
    /\ ev = [act |-> "start", i |-> 0, stack |-> <<>>, out |-> <<>>]

\* lines 43-46
FixRefuse ==
    /\ pc = "args"
    /\ RefusedUser(bodies.user)
    /\ pc' = "refused"
    /\ result' = 2
    /\ ev' = Event("Refuse")
    /\ UNCHANGED <<input, tokens, i, out, stack, prog, bodies>>

\* lines 48-60
FixNoEntries ==
    /\ pc = "args"
    /\ ~RefusedUser(bodies.user)
    /\ FixEntries(input) = <<>>
    /\ out' = out \o <<LogLine(0, "READ INPUT")>>
    /\ pc' = "exit"
    /\ result' = 0
    /\ ev' = Event("NoEntries")
    /\ UNCHANGED <<input, tokens, i, stack, prog, bodies>>

\* lines 48-68
FixStart ==
    /\ pc = "args"
    /\ ~RefusedUser(bodies.user)
    /\ FixEntries(input) # <<>>
    /\ tokens' = IF bodies.limit > 0 THEN PySlice(FixEntries(input), 0, bodies.limit)
                 ELSE FixEntries(input)
    /\ out' = out \o <<LogLine(0, "READ INPUT"), LogLine(0, "LOG STARTED")>>
    /\ pc' = "run"
    /\ ev' = Event("Start")
    /\ UNCHANGED <<input, i, stack, result, prog, bodies>>

\* lines 71-100: what every iteration does before it connects
BlockPrologue ==
    <<"LOG BLOCK", "WRITE ATTEMPTED">>
        \o (IF needs_do_wrap(tokens[i].block) THEN <<"LOG WRAPPED">> ELSE <<>>)

\* lines 102-128: the connection opens and the block is executed without error
FixBlockSuccess ==
    /\ InBlocks
    /\ Iteration("BlockSuccess", BlockPrologue \o <<"CONNECT", "EXECUTE", "LOG SUCCESS">>)

\* lines 102-119 and 129-137: the connection opens and the block raises
FixBlockError ==
    /\ InBlocks
    /\ Iteration("BlockError", BlockPrologue \o <<"CONNECT", "EXECUTE", "LOG ERROR">>)

\* lines 102-110 and 129-137: psycopg2.connect raises
FixConnectError ==
    /\ InBlocks
    /\ Iteration("ConnectError", BlockPrologue \o <<"CONNECT", "LOG ERROR">>)

\* lines 139-141
FixFinish ==
    /\ pc = "run"
    /\ i > Len(tokens)
    /\ out' = out \o <<LogLine(0, "LOG FINISHED")>>
    /\ pc' = "done"
    /\ result' = 0
    /\ ev' = Event("Finish")
    /\ UNCHANGED <<input, tokens, i, stack, prog, bodies>>

NextFix ==
    \/ FixRefuse \/ FixNoEntries \/ FixStart \/ FixBlockSuccess \/ FixBlockError
    \/ FixConnectError \/ FixFinish

SpecFix == InitFix /\ [][NextFix]_vars

---------------------------------------------------------------------------
(* auto_fix_top_n_safe.py.  input is what the file manual_review_fixes.sql *)
(* holds, bodies the list ids of line 87, result the value returned by     *)
(* parse_manual_file_and_replace, out the files written so far, stack the  *)
(* answer typed at the prompt, pc "start" before line 89, "no_markers"     *)
(* after the return of line 92, "prompt" while input() waits,              *)
(* "overwritten" and "kept" at the end.  The files hold valid UTF-8 and    *)
(* are written where os.linesep is "\n".                                   *)

MaxOf(S) == CHOOSE x \in S : \A y \in S : y <= x

\* F(v) with v computed once
With(v, F(_)) == CHOOSE r \in {F(x) : x \in {v}} : TRUE

\* s without the characters at the indices Del and with a newline put before the
\* characters at the indices Ins
Edit(s, Del, Ins) ==
    LET slots == [m \in 1..(2 * Len(s)) |->
                    IF m % 2 = 1 THEN [keep |-> ((m + 1) \div 2) \in Ins, ch |-> "\n"]
                    ELSE [keep |-> (m \div 2) \notin Del, ch |-> s[m \div 2]]]
    IN  With(SelectSeq(slots, LAMBDA x : x.keep),
             LAMBDA kept : [m \in 1..Len(kept) |-> kept[m].ch])

\* read_text: the text mode turns "\r\n" and "\r" into "\n"
ReadText(bytes) ==
    With(Edit(bytes, {k \in 2..Len(bytes) : bytes[k] = "\n" /\ bytes[k - 1] = "\r"}, {}),
         LAMBDA t : [k \in 1..Len(t) |-> IF t[k] = "\r" THEN "\n" ELSE t[k]])

LineStart(s, p) == p = 1 \/ (p > 1 /\ p <= Len(s) + 1 /\ s[p - 1] = "\n")

\* (?m)^\s*\d+\s*$ matched at index p: the index after the match, 0 when none
NumericLineEnd(s, p) ==
    LET a    == SpanEnd(s, p, SpaceChars)
        d    == SpanEnd(s, a, Digits)
        e    == SpanEnd(s, d, SpaceChars)
        ends == {q \in d..e : q = Len(s) + 1 \/ s[q] = "\n"}
    IN  IF LineStart(s, p) /\ d > a /\ ends # {} THEN MaxOf(ends) ELSE 0

\* the indices the matches of (?m)^\s*\d+\s*$ cover, searched from index k on
RECURSIVE NumericLinesFrom(_, _)
NumericLinesFrom(s, k) ==
    LET starts == {p \in k..Len(s) : NumericLineEnd(s, p) # 0}
    IN  IF starts = {} THEN {}
        ELSE With(MinOf(starts),
                  LAMBDA p : (p..(NumericLineEnd(s, p) - 1))
                                 \cup NumericLinesFrom(s, NumericLineEnd(s, p)))

\* line 34: re.sub(r"(?m)^\s*\d+\s*$", "", s)
DropNumericLines(s) ==
    With(NumericLinesFrom(s, 1), LAMBDA lines : Edit(s, lines, {}))

\* line 35: re.sub(r"(?m)(?P<num>\d+)(?=DO\b)", r"\g<num>\n", s)
BreakBeforeDo(s) ==
    Edit(s, {}, {q \in 2..Len(s) :
                    s[q - 1] \in Digits /\ StartsWith(s, kwDO, q) /\ ~IsWordAt(s, q + 2)})

kwAS == <<"A", "S">>

\* lines 36-37: re.sub(r"(?m)(?<!\n)(?P<tag>W\s+\$\$)", r"\n\g<tag>", s)
BreakBeforeTag(s, W) ==
    Edit(s, {}, {q \in 1..Len(s) :
                    /\ StartsWith(s, W, q)
                    /\ SpanEnd(s, q + Len(W), SpaceChars) > q + Len(W)
                    /\ StartsWith(s, tagEmpty, SpanEnd(s, q + Len(W), SpaceChars))
                    /\ (q = 1 \/ s[q - 1] # "\n")})

\* line 38: re.sub(r"(?m)^[ \t]+", "", s)
DropIndent(s) ==
    Edit(s, {k \in 1..Len(s) :
                \E p \in 1..k : LineStart(s, p) /\ \A j \in p..k : s[j] \in {" ", "\t"}}, {})

\* lines 33-40
fix_concatenation_artifacts(s) ==
    With(DropNumericLines(s), LAMBDA s1 :
    With(BreakBeforeDo(s1), LAMBDA s2 :
    With(BreakBeforeTag(s2, kwDO), LAMBDA s3 :
    With(BreakBeforeTag(s3, kwAS), LAMBDA s4 :
    With(DropIndent(s4), LAMBDA s5 : Strip(s5) \o nl)))))

\* "-- PROPOSED FIX: Reassembled function for failing statement"
HeadWords == SubSeq(HeaderText, 1, Len(HeaderText) - 1)

\* line 47: the pattern matched at index p: the index of the last character of the
\* match, 0 when it does not match
SafeHeaderEnd(text, p) ==
    LET w   == p + Len(HeadWords)
        a   == SpanEnd(text, w, SpaceChars)
        d   == SpanEnd(text, a, Digits)
        e   == SpanEnd(text, d, SpaceChars)
        nls == {q \in d..(e - 1) : text[q] = "\n"}
    IN  IF StartsWith(text, HeadWords, p) /\ a > w /\ d > a /\ nls # {}
        THEN MaxOf(nls) ELSE 0

\* int(m.group(1)) of line 63 for the separator matched at index p
SafeHeaderId(text, p) ==
    LET a == SpanEnd(text, p + Len(HeadWords), SpaceChars)
    IN  DecimalValue(SubSeq(text, a, SpanEnd(text, a, Digits) - 1))

\* line 47: parts, as the text before the first separator and one record per separator
SafeParts(content) ==
    LET starts == Sorted({p \in 1..Len(content) : SafeHeaderEnd(content, p) # 0})
    IN  [prefix |-> IF starts = <<>> THEN content ELSE SubSeq(content, 1, starts[1] - 1),
         entries |->
            [n \in 1..Len(starts) |->
                [sep   |-> SubSeq(content, starts[n], SafeHeaderEnd(content, starts[n])),
                 pid   |-> SafeHeaderId(content, starts[n]),
                 block |-> SubSeq(content, SafeHeaderEnd(content, starts[n]) + 1,
                                  IF n < Len(starts) THEN starts[n + 1] - 1
                                  ELSE Len(content))]]]

InList(x, list) == \E n \in 1..Len(list) : list[n] = x

\* lines 43-74; <<>> is None
ReplaceIn(parts, ids_to_fix) ==
    LET es == parts.entries
    IN  IF es = <<>> THEN <<>>
        ELSE [out |-> parts.prefix \o
                      Join([n \in 1..Len(es) |->
                               es[n].sep \o (IF InList(es[n].pid, ids_to_fix)
                                             THEN fix_concatenation_artifacts(es[n].block)
                                             ELSE es[n].block)]),
              changed_ids |->
                  With(SelectSeq(es, LAMBDA x : InList(x.pid, ids_to_fix)),
                       LAMBDA fixed : [n \in 1..Len(fixed) |-> fixed[n].pid])]

parse_manual_file_and_replace(bytes, ids_to_fix) ==
    With(ReadText(bytes), LAMBDA content :
    With(SafeParts(content), LAMBDA parts : ReplaceIn(parts, ids_to_fix)))

\* f"... statement 8 (original statements 1..2)\n"
HeaderWithRange8 ==
    HeaderText \o <<"8">> \o OrigOpen \o <<"1", ".", ".", "2", ")", "\n">>

\* the most phrases the file of proposed fixes is made of
MaxPhrasesSafe == 3

PhrasesSafe ==
    { Header(7), HeaderWithRange8, <<" ", "x", ";", "\n">>, <<"1", "2", "\n">>,
      <<"1">> \o kwDO \o sp \o tagEmpty \o nl, <<"x", ";", "\r", "\n">> }

IdLists == {<<>>, <<7>>, <<8>>}

Answers == {<<"y">>, <<"Y", " ">>, <<"n">>, <<>>, <<"y", "e", "s">>}

FileWrite(file, text) == [file |-> file, text |-> text]

InitSafe ==
    /\ prog = "auto_fix_top_n_safe"
    /\ input \in Texts(PhrasesSafe, MaxPhrasesSafe)
    /\ bodies \in {[ids |-> l] : l \in IdLists}
    /\ tokens = <<>>
    /\ i = 1
    /\ out = <<>>
    /\ stack = <<>>
    /\ pc = "start"
    /\ result = <<>>
    /\ ev = [act |-> "start", i |-> 0, stack |-> <<>>, out |-> <<>>]

\* lines 89-92
SafeNoMarkers ==
    /\ pc = "start"
    /\ parse_manual_file_and_replace(input, bodies.ids) = <<>>
    /\ pc' = "no_markers"
    /\ ev' = Event("NoMarkers")
    /\ UNCHANGED <<input, tokens, i, out, stack, result, prog, bodies>>

\* lines 89 and 93-97
SafeWriteFixed ==
    /\ pc = "start"
    /\ \E r \in {parse_manual_file_and_replace(input, bodies.ids)} :
          /\ r # <<>>
          /\ result' = r
          /\ out' = out \o <<FileWrite("fixed_safe_top", r.out)>>
    /\ pc' = "prompt"
    /\ ev' = Event("WriteFixed")
    /\ UNCHANGED <<input, tokens, i, stack, prog, bodies>>

\* line 97: .strip().lower() of what was typed
Confirm(answer) == Lower(Strip(answer))

\* lines 97-100
SafeOverwrite ==
    /\ pc = "prompt"
    /\ \E answer \in Answers :
          /\ Confirm(answer) = <<"y">>
          /\ stack' = <<answer>>
    /\ input' = result.out
    /\ out' = out \o <<FileWrite("manual_review_fixes", result.out)>>
    /\ pc' = "overwritten"
    /\ ev' = Event("Overwrite")
    /\ UNCHANGED <<tokens, i, result, prog, bodies>>

\* lines 97-98 and 101-102
SafeKeep ==
    /\ pc = "prompt"
    /\ \E answer \in Answers :
          /\ Confirm(answer) # <<"y">>
          /\ stack' = <<answer>>
    /\ pc' = "kept"
    /\ ev' = Event("Keep")
    /\ UNCHANGED <<input, tokens, i, out, result, prog, bodies>>

NextSafe == SafeNoMarkers \/ SafeWriteFixed \/ SafeOverwrite \/ SafeKeep

SpecSafe == InitSafe /\ [][NextSafe]_vars

---------------------------------------------------------------------------
(* repair_plpgsql_parser.py, the body of the loop of lines 110-142 for one *)
(* block.  input is the block, i its statement number, out the text b_safe *)
(* being repaired, bodies the dollar bodies taken out of it, tokens the    *)
(* counts of the last count_tokens, result the text appended to the        *)
(* output, pc "protect" at line 111, "if_fix" at line 116, "end_fix" at    *)
(* line 126, "restore" at line 134 and "done" after line 142.              *)

\* "'...',"
CountPlaceholder == <<"'", ".", ".", ".", "'", ",">>

\* line 60: re.sub(r"'([^']|'')*'", "'...',", S) from index k on
RECURSIVE CountStringSubFrom(_, _)
CountStringSubFrom(s, k) ==
    IF k > Len(s) THEN <<>>
    ELSE LET e == StringMatchEnd(s, k)
         IN  IF e # 0 THEN CountPlaceholder \o CountStringSubFrom(s, e + 1)
             ELSE <<s[k]>> \o CountStringSubFrom(s, k + 1)

Max0(n) == IF n > 0 THEN n ELSE 0

\* len(re.findall(r"\bW\b", S))
CountWord(S, W) ==
    Cardinality({k \in 1..Len(S) : BoundaryBefore(S, k) /\ WordEnd(S, k, W) # 0})

\* the counts of lines 62-71 on the text S of line 60
CountsOf(S) ==
    LET end_if == Cardinality({k \in 1..Len(S) :
                                  BoundaryBefore(S, k) /\ EndFormEnd(S, k, kwIF, FALSE) # 0})
    IN  [if     |-> Max0(CountWord(S, kwIF) - end_if),
         end_if |-> end_if,
         begin  |-> CountWord(S, kwBEGIN),
         end    |-> Max0(CountWord(S, kwEND) - end_if)]

\* lines 55-72
count_tokens(s) == With(CountStringSubFrom(Upper(s), 1), LAMBDA S : CountsOf(S))

\* the index after \s*;? read from index e on
SemiEnd(s, e) ==
    LET w == SpanEnd(s, e, SpaceChars)
    IN  IF w <= Len(s) /\ s[w] = ";" THEN w + 1 ELSE w

\* lines 79 and 92: the spans (first index, index after the last) of the matches of
\* \bEND\s+IF\b\s*;? (ifForm) or \bEND\b\s*;?, in the order of the text
EndMatches(s, ifForm) ==
    LET EndOf(k) == IF ~BoundaryBefore(s, k) THEN 0
                    ELSE IF ifForm THEN EndFormEnd(s, k, kwIF, FALSE)
                    ELSE WordEnd(s, k, kwEND)
        starts   == Sorted({k \in 1..Len(s) : EndOf(k) # 0})
    IN  [n \in 1..Len(starts) |-> <<starts[n], SemiEnd(s, EndOf(starts[n]) + 1)>>]

\* lines 83-85 and 95-97: s without the last surplus of the matches
RemoveLast(s, matches, surplus) ==
    LET first == Max0(Len(matches) - surplus) + 1
    IN  Edit(s, UNION {matches[n][1]..(matches[n][2] - 1) : n \in first..Len(matches)}, {})

\* lines 74-86
remove_surplus_end_if(s, surplus) ==
    IF surplus <= 0 THEN s
    ELSE With(EndMatches(s, TRUE), LAMBDA matches : RemoveLast(s, matches, surplus))

\* lines 88-98
remove_surplus_end(s, surplus) ==
    IF surplus <= 0 THEN s
    ELSE With(EndMatches(s, FALSE), LAMBDA matches : RemoveLast(s, matches, surplus))

RECURSIVE Repeat(_, _)
Repeat(t, n) == IF n <= 0 THEN <<>> ELSE t \o Repeat(t, n - 1)

\* lines 100-107
append_missing_ends(s, missing_begin, missing_if) ==
    s \o nl \o Repeat(kwEND \o sp \o kwIF \o semi \o nl, missing_if)
      \o Repeat(kwEND \o semi \o nl, missing_begin)

\* the most phrases a block is made of
MaxPhrasesV1 == 3

PhrasesV1 ==
    { kwIF \o sp, kwEND \o sp \o kwIF \o semi, kwEND \o semi, kwBEGIN \o sp,
      <<"'", "I", "F", "'">>, tagEmpty \o <<"x">> \o tagEmpty }

InitV1 ==
    /\ prog = "v1"
    /\ input \in Texts(PhrasesV1, MaxPhrasesV1)
    /\ i = 7
    /\ out = <<>>
    /\ bodies = <<>>
    /\ tokens = <<>>
    /\ stack = <<>>
    /\ pc = "protect"
    /\ result = <<>>
    /\ ev = [act |-> "start", i |-> 0, stack |-> <<>>, out |-> <<>>]

\* what a step of the loop body leaves: the text b_safe and the counts taken of it
V1Step(act, b_safe, next) ==
    /\ \E t \in {b_safe} :
          /\ out' = t
          /\ tokens' = count_tokens(t)
    /\ pc' = next
    /\ ev' = Event(act)
    /\ UNCHANGED <<input, i, stack, result, prog>>

\* lines 111-114
V1Protect ==
    /\ pc = "protect"
    /\ bodies' = protect_dollars(input).bodies
    /\ V1Step("Protect", protect_dollars(input).text, "if_fix")

\* lines 116-118 and 125
V1RemoveEndIf ==
    /\ pc = "if_fix"
    /\ tokens.end_if > tokens.if
    /\ V1Step("RemoveEndIf", remove_surplus_end_if(out, tokens.end_if - tokens.if), "end_fix")
    /\ UNCHANGED bodies

\* lines 119-122 and 125
V1AppendEndIf ==
    /\ pc = "if_fix"
    /\ tokens.if > tokens.end_if
    /\ V1Step("AppendEndIf", append_missing_ends(out, 0, tokens.if - tokens.end_if), "end_fix")
    /\ UNCHANGED bodies

\* lines 116, 119 and 125: neither branch is taken
V1IfBalanced ==
    /\ pc = "if_fix"
    /\ tokens.if = tokens.end_if
    /\ V1Step("IfBalanced", out, "end_fix")
    /\ UNCHANGED bodies

\* lines 126-128
V1RemoveEnd ==
    /\ pc = "end_fix"
    /\ tokens.end > tokens.begin
    /\ V1Step("RemoveEnd", remove_surplus_end(out, tokens.end - tokens.begin), "restore")
    /\ UNCHANGED bodies

\* lines 129-131
V1AppendEnd ==
    /\ pc = "end_fix"
    /\ tokens.begin > tokens.end
    /\ V1Step("AppendEnd", append_missing_ends(out, tokens.begin - tokens.end, 0), "restore")
    /\ UNCHANGED bodies

\* lines 126 and 129: neither branch is taken
V1EndBalanced ==
    /\ pc = "end_fix"
    /\ tokens.begin = tokens.end
    /\ V1Step("EndBalanced", out, "restore")
    /\ UNCHANGED bodies

\* lines 134-142
V1Emit ==
    /\ pc = "restore"
    /\ \E b_repaired \in {restore_dollars(out, bodies)} :
          result' = Header(i) \o (IF HasCreateFunction(b_repaired) THEN b_repaired
                                  ELSE Wrapped(b_repaired)) \o nl
    /\ pc' = "done"
    /\ ev' = Event("Emit")
    /\ UNCHANGED <<input, tokens, i, out, stack, prog, bodies>>

NextV1 ==
    \/ V1Protect \/ V1RemoveEndIf \/ V1AppendEndIf \/ V1IfBalanced
    \/ V1RemoveEnd \/ V1AppendEnd \/ V1EndBalanced \/ V1Emit

SpecV1 == InitV1 /\ [][NextV1]_vars

---------------------------------------------------------------------------
(* Claims about the rewriter (repair_rewriter_parser.py), specification Spec *)

\* the last iteration handled an END token
EvIsEnd == ev.act \in {"EndMatch", "EndDrop"}
EvEndType == EndType(tokens, ev.i)
EvEndTag == EndTag(tokens, ev.i)
\* the nearest frame below or at the top of the stack the last iteration found that
\* the END form of that iteration closes (0: there is none)
EvMatch ==
    LET hits == {k \in 1..Len(ev.stack) : FrameMatches(ev.stack[k], EvEndType, EvEndTag)}
    IN  IF hits = {} THEN 0 ELSE CHOOSE k \in hits : \A h \in hits : h <= k
\* the tokens the last iteration emitted, and the input tokens it consumed
Emitted == SubSeq(out, Len(ev.out) + 1, Len(out))
Consumed == SubSeq(tokens, ev.i, i - 1)

\* C1: idempotence: running process_block_text on its own result returns that result.
C1_Idempotent == pc = "done" => process_block_text(result) = result

\* The END forms and frames of the specification (section 4.2, steps 1-5), used to
\* state which inputs are balanced: every END form closes the frame on top of the
\* stack, and no frame is open at the end of the input.
SuffixKind(toks, k) ==
    LET j == SkipWsComments(toks, k + 1)
    IN  IF j > Len(toks) THEN "BEGIN"
        ELSE IF is_word(toks[j], kwIF) THEN "IF"
        ELSE IF is_word(toks[j], kwLOOP) THEN "LOOP"
        ELSE IF is_word(toks[j], kwCASE) THEN "CASE"
        ELSE IF toks[j].kind = "DOLLAR" THEN "DO"
        ELSE "BEGIN"

RECURSIVE BalancedFrom(_, _, _)
BalancedFrom(toks, k, stk) ==
    IF k > Len(toks) THEN stk = <<>>
    ELSE IF IsDoOpen(toks, k)
    THEN BalancedFrom(toks, peek_next(toks, k) + 1,
                      Append(stk, Frame("DO", toks[peek_next(toks, k)].text)))
    ELSE IF OpenerType(toks[k]) # "NONE"
    THEN BalancedFrom(toks, k + 1, Append(stk, Frame(OpenerType(toks[k]), NoTag)))
    ELSE IF is_word(toks[k], kwEND)
    THEN LET kind == SuffixKind(toks, k)
             j    == SkipWsComments(toks, k + 1)
             tag  == IF kind = "DO" THEN toks[j].text ELSE NoTag
         IN  /\ stk # <<>>
             /\ stk[Len(stk)] = Frame(kind, tag)
             /\ BalancedFrom(toks, IF kind = "BEGIN" THEN k + 1 ELSE j + 1,
                             SubSeq(stk, 1, Len(stk) - 1))
    ELSE BalancedFrom(toks, k + 1, stk)

BalancedInput == BalancedFrom(tokens, 1, <<>>)

\* C3: an input whose END forms each close the frame on top of the stack, with no
\* frame left open, is returned unchanged.
C3_BalancedUnchanged == (pc = "done" /\ BalancedInput) => result = input

\* C5 as stated: when END $tag$ closes a DO frame while an IF frame opened inside
\* it is still open, a synthesized END IF; is emitted before that END $tag$.
C5_Case ==
    /\ ev.act = "EndMatch"
    /\ EvEndType = "END_DOLLAR"
    /\ \E k \in (EvMatch + 1)..Len(ev.stack) : ev.stack[k].type = "IF"

EndIfText == kwEND \o sp \o kwIF \o semi

C6_Orphan ==
    /\ EvIsEnd
    /\ LET kind == SuffixKind(tokens, ev.i)
           j    == SkipWsComments(tokens, ev.i + 1)
           tag  == IF kind = "DO" THEN tokens[j].text ELSE NoTag
       IN  \A k \in 1..Len(ev.stack) : ev.stack[k] # Frame(kind, tag)

C6_OrphanDropped ==
    C6_Orphan =>
        /\ out = ev.out
        /\ stack = ev.stack
        /\ LET j == SkipWsComments(tokens, ev.i + 1)
           IN  IF SuffixKind(tokens, ev.i) = "BEGIN" THEN i > ev.i ELSE i > j

\* the canonical closer of a frame (specification, section 4.2 step 6)
CloserText(fr) ==
    IF fr.type = "DO" THEN kwEND \o sp \o fr.tag \o semi
    ELSE IF fr.type = "BEGIN" THEN kwEND \o semi
    ELSE kwEND \o sp \o
         (IF fr.type = "IF" THEN kwIF ELSE IF fr.type = "LOOP" THEN kwLOOP ELSE kwCASE)
         \o semi

\* the closers of a stack, innermost frame first
RECURSIVE ClosersText(_)
ClosersText(stk) ==
    IF stk = <<>> THEN <<>>
    ELSE CloserText(stk[Len(stk)]) \o ClosersText(SubSeq(stk, 1, Len(stk) - 1))

NoSpace(t) == SelectSeq(t, LAMBDA c : c \notin SpaceChars)

EndsWith(t, suffix) ==
    Len(suffix) <= Len(t) /\ SubSeq(t, Len(t) - Len(suffix) + 1, Len(t)) = suffix

\* a is b with some elements deleted
RECURSIVE IsSubseq(_, _)
IsSubseq(a, b) ==
    IF a = <<>> THEN TRUE
    ELSE IF b = <<>> THEN FALSE
    ELSE IF Head(a) = Head(b) THEN IsSubseq(Tail(a), Tail(b))
    ELSE IsSubseq(a, Tail(b))

C8_Case == EvIsEnd /\ EvMatch # 0 /\ EvMatch < Len(ev.stack)

LeftStack(k) == k > Len(stack)

C9_WitnessOtherTag ==
    /\ EvIsEnd
    /\ EvEndType = "END_DOLLAR"
    /\ EvEndTag = tagEmpty
    /\ stack # <<>>
    /\ stack[Len(stack)] = Frame("DO", tagA)

---------------------------------------------------------------------------
(* Claims about v2 (repair_plpgsql_parser_v2.py), specification SpecV2     *)

\* C2: balance invariant: the tokenizer and stack algorithm of process_block, run
\* again on the output of process_block, drop no closer and synthesize no closer.
C2_OutputBalanced == pc = "done" => (DropsV2(result) = 0 /\ SynthV2(result) = 0)

\* C4: on a block that is already balanced (nothing to drop, nothing to close),
\* process_block(process_block(b)) = process_block(b).
C4_IdempotentOnBalanced ==
    (pc = "done" /\ DropsV2(input) = 0 /\ SynthV2(input) = 0)
        => process_block_v2(result) = result

---------------------------------------------------------------------------
(* Claims about v3 and v4, specification SpecV34                           *)

\* the text is not empty and all whitespace
IsBlank(t) == t # <<>> /\ \A k \in 1..Len(t) : t[k] \in SpaceChars

\* the kind the END form at toks[k] closes: END followed, through whitespace, by the
\* keyword IF, LOOP or CASE closes that kind, any other END is a bare END and closes
\* BEGIN
EndFormKind(toks, k) ==
    IF /\ k + 2 <= Len(toks)
       /\ toks[k + 1].typ = "text" /\ IsBlank(toks[k + 1].txt)
       /\ toks[k + 2].typ = "kw" /\ toks[k + 2].txt \in {kwIF, kwLOOP, kwCASE}
    THEN KwOpener(toks[k + 2].txt)
    ELSE "BEGIN"

\* C10: during the token pass of v3 and v4 a frame is popped only when the END form
\* of the frame's own kind is processed, and the closer emitted for it has that kind.
C10_PoppedOnlyByMatchingCloser ==
    (ev.act \notin {"start", "Synth", "Return"} /\ Len(stack) < Len(ev.stack))
        => /\ ev.act = "EndPop"
           /\ ev.stack[Len(ev.stack)] = EndFormKind(tokens, ev.i)
           /\ out[Len(out)] = <<" ">> \o closer_for(EndFormKind(tokens, ev.i))

---------------------------------------------------------------------------
(* Claims about literals and dollar-quoted text in the rewriter,           *)
(* specification SpecLex                                                   *)

\* the last step was an iteration of the token loop
EvIsIteration == ev.act \notin {"start", "Return", "Synth"}

LiteralKinds == {"STRING", "DQ"}

\* C11: no keyword bleed from literals: the iteration of process_tokens that consumes
\* a single-quoted string literal or a double-quoted identifier, whatever keywords it
\* contains, consumes that token alone, leaves the stack as it was and emits the
\* literal verbatim.
C11_NoKeywordBleed ==
    (EvIsIteration /\ pc = "run") =>
        \A k \in ev.i..(i - 1) :
            tokens[k].kind \in LiteralKinds
                => /\ i = ev.i + 1
                   /\ stack = ev.stack
                   /\ out = Append(ev.out, tokens[k])

\* a literal holding END IF; is consumed while an IF frame is on top of the stack
C11_Witness ==
    /\ EvIsIteration /\ pc = "run"
    /\ i = ev.i + 1
    /\ tokens[ev.i] = Token("STRING", <<"'">> \o kwEND \o sp \o kwIF \o semi \o <<"'">>)
    /\ ev.stack # <<>>
    /\ ev.stack[Len(ev.stack)].type = "IF"
    /\ stack = ev.stack

\* toks[k] is a dollar tag that directly follows DO (whitespace and comments apart)
FollowsDo(toks, k) ==
    \E d \in 1..(k - 1) : is_word(toks[d], kwDO) /\ SkipWsComments(toks, d + 1) = k

\* index of the first DOLLAR token with text tag at or after k, 0 if there is none
RECURSIVE NextTag(_, _, _)
NextTag(toks, k, tag) ==
    IF k > Len(toks) THEN 0
    ELSE IF toks[k].kind = "DOLLAR" /\ toks[k].text = tag THEN k
    ELSE NextTag(toks, k + 1, tag)

\* the indices of the tokens that lie between a dollar-quote opener that does not
\* directly follow DO and its identical closing tag; dos holds the tags of the DO
\* blocks open at k, whose own closing tags are not openers
RECURSIVE QuotedIdx(_, _, _)
QuotedIdx(toks, k, dos) ==
    IF k > Len(toks) THEN {}
    ELSE IF toks[k].kind # "DOLLAR" THEN QuotedIdx(toks, k + 1, dos)
    ELSE IF FollowsDo(toks, k) THEN QuotedIdx(toks, k + 1, dos \cup {toks[k].text})
    ELSE IF toks[k].text \in dos THEN QuotedIdx(toks, k + 1, dos \ {toks[k].text})
    ELSE LET c == NextTag(toks, k + 1, toks[k].text)
         IN  IF c = 0 THEN QuotedIdx(toks, k + 1, dos)
             ELSE ((k + 1)..(c - 1)) \cup QuotedIdx(toks, c + 1, dos)

\* C12: dollar-quoted text is not scanned for keywords: a token between a dollar-quote
\* opener that does not directly follow DO and its identical closing tag is consumed by
\* an iteration that pushes and pops no frame and emits the token.
C12_DollarBodyNotScanned ==
    (EvIsIteration /\ pc = "run") =>
        \A k \in ev.i..(i - 1) :
            k \in QuotedIdx(tokens, 1, {})
                => /\ stack = ev.stack
                   /\ out = ev.out \o SubSeq(tokens, ev.i, i - 1)

---------------------------------------------------------------------------
(* Claims about tokenize of the rewriter, specification SpecTok            *)

\* C17: the tokenizer covers its input exactly: the tokens built so far are non-empty
\* and their concatenation is the text scanned so far, so that the returned list
\* reconstructs the whole input.
C17_TokensCoverInput ==
    /\ \A k \in 1..Len(tokens) : tokens[k].text # <<>>
    /\ reconstruct(tokens) = SubSeq(input, 1, i - 1)
    /\ pc = "done" => reconstruct(tokens) = input

\* a returned list of three tokens or more, a comment with its newline among them
C17_Witness ==
    /\ pc = "done"
    /\ Len(tokens) >= 3
    /\ \E k \in 1..Len(tokens) : tokens[k] = Token("COMMENT", <<"-", "-", "\n">>)

\* the number of quote characters q the text ends with, not counting its first character
RECURSIVE TrailingQuotes(_, _)
TrailingQuotes(t, q) ==
    IF Len(t) >= 2 /\ t[Len(t)] = q
    THEN 1 + TrailingQuotes(SubSeq(t, 1, Len(t) - 1), q)
    ELSE 0

\* the token is a construct that lacks its terminator
Unterminated(tok) ==
    \/ /\ tok.kind = "COMMENT"
       /\ StartsWith(tok.text, <<"-", "-">>, 1)
       /\ tok.text[Len(tok.text)] # "\n"
    \/ /\ tok.kind = "COMMENT"
       /\ StartsWith(tok.text, <<"/", "*">>, 1)
       /\ ~(Len(tok.text) >= 4 /\ StartsWith(tok.text, <<"*", "/">>, Len(tok.text) - 1))
    \/ tok.kind = "STRING" /\ TrailingQuotes(tok.text, "'") % 2 = 0
    \/ tok.kind = "DQ" /\ TrailingQuotes(tok.text, "\"") % 2 = 0

\* C18: the tokenizer never fails on malformed input: it always returns, and an
\* unterminated comment, string or quoted identifier is one token that extends to the
\* end of the text.
C18_NeverFails ==
    /\ <>(pc = "done")
    /\ [](\A k \in 1..Len(tokens) :
             Unterminated(tokens[k]) => (k = Len(tokens) /\ i = Len(input) + 1))

\* tokenize returned a list that ends in an unterminated string of several characters
C18_Witness ==
    /\ pc = "done"
    /\ tokens # <<>>
    /\ tokens[Len(tokens)].kind = "STRING"
    /\ Len(tokens[Len(tokens)].text) >= 2
    /\ Unterminated(tokens[Len(tokens)])
    /\ Len(tokens) >= 2

---------------------------------------------------------------------------
(* Claims about strings and dollar tags in v2 and v3, specification SpecV2S *)

\* the text a occurs in the text b
IsSubstring(a, b) == Find(b, a, 1) # 0

\* the single-quoted string literals of s, in order (the matches of STRING)
RECURSIVE StringsFrom(_, _)
StringsFrom(s, k) ==
    IF k > Len(s) THEN <<>>
    ELSE LET e == StringMatchEnd(s, k)
         IN  IF e # 0 THEN <<SubSeq(s, k, e)>> \o StringsFrom(s, e + 1)
             ELSE StringsFrom(s, k + 1)

\* C13: string literals are emitted verbatim by v2: every single-quoted string literal
\* of the input that lies outside the dollar-quoted bodies occurs in the text
\* process_block returns.
C13_StringsVerbatim ==
    pc = "done" =>
        LET lits == StringsFrom(protect_dollars(input).text, 1)
        IN  \A k \in 1..Len(lits) : IsSubstring(lits[k], result)

\* the dollar-quoted span ends at the next occurrence of the tag that opens it
EndsAtOwnTag(body) ==
    LET o   == DollarTagEnd(body, 1)
        tag == SubSeq(body, 1, o)
    IN  /\ o # 0
        /\ Find(body, tag, o + 1) = Len(body) - Len(tag) + 1

\* C15: dollar tags match on open and close in the protection step of v2 and v3: every
\* span protect_dollars (v2) and protect_patterns (v3) replace by a placeholder ends
\* at the next occurrence of the tag that opens it.
C15_TagsMatch ==
    LET b2 == protect_dollars(input).bodies
        b3 == protect_patterns(input).bodies
    IN  /\ \A k \in 1..Len(b2) : EndsAtOwnTag(b2[k])
        /\ \A k \in 1..Len(b3) : EndsAtOwnTag(b3[k])

---------------------------------------------------------------------------
(* Claims about dollar-quoted spans in v4, specification SpecV34           *)

\* C14: dollar-quote preservation in v4: every dollar-quoted span found by
\* protect_dollars_in_block occurs, unsplit, in the text rebalance_block returns.
C14_DollarSpansPreserved ==
    (prog = "v4" /\ pc = "done") =>
        \A k \in 1..Len(bodies) : IsSubstring(bodies[k], result)

\* the index of the dollar-quote opener of s that has no identical closing tag after it,
\* scanning from k and skipping the spans that are closed; 0 if there is none
RECURSIVE OpenQuoteAt(_, _)
OpenQuoteAt(s, k) ==
    IF k > Len(s) THEN 0
    ELSE LET o == DollarTagEnd(s, k)
         IN  IF o = 0 THEN OpenQuoteAt(s, k + 1)
             ELSE LET j == Find(s, SubSeq(s, k, o), o + 1)
                  IN  IF j = 0 THEN k ELSE OpenQuoteAt(s, j + (o - k + 1))

\* the input up to and including the unterminated opener
UpToOpener(s) == SubSeq(s, 1, DollarTagEnd(s, OpenQuoteAt(s, 1)))

\* the text after the unterminated opener
TrailingText(s) == SubSeq(s, DollarTagEnd(s, OpenQuoteAt(s, 1)) + 1, Len(s))

\* C16: unterminated dollar quote in v4: the opener and all trailing text are one
\* protected span, the token pass is the one of the input cut off after the opener (no
\* keyword of the trailing text pushes or pops a frame), and every frame still open
\* at the end of the tokens is closed by a synthesized closer before the return.
C16_UnterminatedDollar ==
    (prog = "v4" /\ OpenQuoteAt(input, 1) # 0) =>
        /\ bodies # <<>>
        /\ bodies[Len(bodies)] = SubSeq(input, OpenQuoteAt(input, 1), Len(input))
        /\ tokens = PrepareV4(UpToOpener(input)).tokens
        /\ ev.act = "Synth" =>
              /\ ev.stack # <<>>
              /\ stack = SubSeq(ev.stack, 1, Len(ev.stack) - 1)
              /\ out = Append(ev.out, nl \o closer_for(ev.stack[Len(ev.stack)]) \o nl)
        /\ pc = "done" => stack = <<>>

\* an IF is open when the tokens end, the trailing text of the unterminated quote holds
\* an END, and the closer of the IF was synthesized
C16_Witness ==
    /\ prog = "v4" /\ pc = "done"
    /\ OpenQuoteAt(input, 1) # 0
    /\ IsSubstring(kwEND, TrailingText(input))
    /\ EndsWith(result, nl \o closer_for("IF") \o nl)

---------------------------------------------------------------------------
(* Claims about the drivers of v2, v3 and v4, specification SpecDrv        *)

\* the text holds the word CREATE, whitespace, and the word FUNCTION, in any case
ContainsCreateFunction(text) ==
    \E a, b \in 1..Len(text) :
        /\ a + Len(kwCREATE) < b
        /\ b + Len(kwFUNCTION) - 1 <= Len(text)
        /\ Upper(SubSeq(text, a, a + Len(kwCREATE) - 1)) = kwCREATE
        /\ Upper(SubSeq(text, b, b + Len(kwFUNCTION) - 1)) = kwFUNCTION
        /\ \A k \in (a + Len(kwCREATE))..(b - 1) : text[k] \in SpaceChars
        /\ (a > 1 => text[a - 1] \notin WordChars)
        /\ (b + Len(kwFUNCTION) <= Len(text) => text[b + Len(kwFUNCTION)] \notin WordChars)

\* what the driver is to write for entry e: the header with the statement id, then the
\* repaired text, inside the envelope exactly when it holds no CREATE FUNCTION
Expected(e) ==
    LET r == Repaired(prog, e.block)
    IN  Header(e.idx)
        \o (IF ContainsCreateFunction(r) THEN r ELSE Wrapped(r))
        \o (IF prog = "v2" THEN nl ELSE <<>>)

\* C19: envelope rule: for every processed block the driver writes the header with the
\* statement id followed by the repaired text, wrapped as DO $wrap$ BEGIN ... END $wrap$
\* LANGUAGE plpgsql; exactly when the repaired text does not contain CREATE FUNCTION.
C19_EnvelopeRule ==
    /\ Join(out) = Prefix(prog, input)
                     \o Join([k \in 1..(i - 1) |-> Expected(input[k])])
    /\ pc = "done" => result = Join(out)

\* a written file with one block left as it is and one block inside the envelope
C19_Witness ==
    /\ pc = "done"
    /\ Len(input) = 2
    /\ ContainsCreateFunction(Repaired(prog, input[1].block))
    /\ ~ContainsCreateFunction(Repaired(prog, input[2].block))
    /\ input[2].block # <<>>

---------------------------------------------------------------------------
(* Claims about diagnostics, specification SpecV2                          *)

---------------------------------------------------------------------------
(* Claims about END LOOP and END CASE in the rewriter, specification Spec  *)

\* the last iteration handled an END followed (past whitespace and comments) by LOOP
\* or CASE while the frame on top of the stack was of that kind
C22_Case ==
    /\ EvIsEnd
    /\ SuffixKind(tokens, ev.i) \in {"LOOP", "CASE"}
    /\ ev.stack # <<>>
    /\ ev.stack[Len(ev.stack)].type = SuffixKind(tokens, ev.i)

\* C22: END LOOP / END CASE met while the top frame is a LOOP / CASE frame pops that
\* frame, emits END and its suffix word as the closer, and consumes the suffix word,
\* which therefore never pushes a frame.
C22_EndLoopClosesLoop ==
    C22_Case =>
        LET j == SkipWsComments(tokens, ev.i + 1)
        IN  /\ stack = SubSeq(ev.stack, 1, Len(ev.stack) - 1)
            /\ Len(Emitted) >= j - ev.i + 1
            /\ SubSeq(Emitted, 1, j - ev.i + 1) = SubSeq(tokens, ev.i, j)
            /\ i > j

---------------------------------------------------------------------------
(* Claims about the closing loop of v2, v3 and v4, specification SpecClose *)

\* the canonical closer of a frame
CanonicalCloser(opener) ==
    CASE opener = "IF" -> <<"E", "N", "D", " ", "I", "F", ";">>
      [] opener = "LOOP" -> <<"E", "N", "D", " ", "L", "O", "O", "P", ";">>
      [] opener = "CASE" -> <<"E", "N", "D", " ", "C", "A", "S", "E", ";">>
      [] opener = "BEGIN" -> <<"E", "N", "D", ";">>

\* one closer per frame of stk, innermost frame first
RECURSIVE ClosersLifo(_)
ClosersLifo(stk) ==
    IF stk = <<>> THEN <<>>
    ELSE <<nl \o CanonicalCloser(stk[Len(stk)]) \o nl>>
         \o ClosersLifo(SubSeq(stk, 1, Len(stk) - 1))

\* the out list and the stack at the end of the token pass
TokenPass ==
    IF prog = "v2"
    THEN [out |-> RunV2(tokens, 1, <<>>, <<>>, 0).out,
          stack |-> RunV2(tokens, 1, <<>>, <<>>, 0).stack]
    ELSE IF prog = "v3" THEN RunV3(tokens, 1, <<>>, <<>>)
    ELSE RunV4(tokens, 1, <<>>, <<>>)

\* C23: after the token pass one canonical closer is appended per frame left on the
\* stack, innermost frame first, after all input text, and the stack is empty when the
\* function returns.
C23_ClosersInLifoOrder ==
    /\ ev.act = "Synth" =>
          /\ i > Len(tokens)
          /\ ev.stack # <<>>
          /\ stack = SubSeq(ev.stack, 1, Len(ev.stack) - 1)
          /\ out = Append(ev.out, nl \o CanonicalCloser(ev.stack[Len(ev.stack)]) \o nl)
    /\ pc = "done" =>
          /\ stack = <<>>
          /\ out = TokenPass.out \o ClosersLifo(TokenPass.stack)
          /\ EndsWith(result, Join(ClosersLifo(TokenPass.stack)))

\* the function returned after its token pass left two frames of different kinds
C23_Witness ==
    /\ pc = "done"
    /\ Len(TokenPass.stack) >= 2
    /\ TokenPass.stack[1] # TokenPass.stack[2]
    /\ TokenPass.stack[2] \in {"LOOP", "CASE"}

---------------------------------------------------------------------------
(* Claims about the block boundaries of v4, specification SpecBlk          *)

SpanInside(b, span) == span.s >= b.start /\ span.e <= b.end
SpanDisjoint(b, span) == span.e <= b.start \/ span.s >= b.end

\* C24: the expansion loop of block_boundaries_keep_dollars terminates for every
\* input, and every span of find_dollar_spans(text) lies entirely inside or entirely
\* outside every block returned.
C24_BlocksKeepSpans ==
    /\ (pc = "expand") ~> (pc = "done")
    /\ [](pc = "done" =>
            \A n \in 1..Len(result) : \A k \in 1..Len(find_dollar_spans(input)) :
                \/ SpanInside(result[n], find_dollar_spans(input)[k])
                \/ SpanDisjoint(result[n], find_dollar_spans(input)[k]))

\* the function returned a block that it widened at its start and at its end
C24_Witness ==
    /\ pc = "done"
    /\ \E n \in 1..Len(result) :
          /\ result[n].start < NaiveBlocks(input, tokens)[n].start
          /\ result[n].end > NaiveBlocks(input, tokens)[n].end

\* C29: the ranges block_boundaries_keep_dollars returns do not overlap: no offset of
\* the text lies in two blocks.
C29_BlocksDisjoint ==
    pc = "done" =>
        \A m, n \in 1..Len(result) :
            m < n => (result[m].end <= result[n].start \/ result[n].end <= result[m].start)

---------------------------------------------------------------------------
(* Claims about input files without markers, specification SpecMain        *)

\* no line of the text starts with the marker -- PROPOSED FIX
NoMarker(text) == MarkerStarts(text) = <<>>

\* the text as the rebalancer of the program repairs it when it is handed to it whole
RebalancedWhole(p, text) ==
    IF p = "rewriter" THEN process_block_text(text) ELSE Repaired(p, text)

\* C21: a file (not empty) without a marker line is rebalanced as one text and written:
\* the program ends with the output file written, and the output holds the repaired
\* text of the whole file.
C21_NoMarkerRebalanced ==
    (input # <<>> /\ NoMarker(input) /\ pc \in {"done", "aborted"}) =>
        /\ pc = "done"
        /\ IsSubstring(RebalancedWhole(prog, input), result)

---------------------------------------------------------------------------
(* Claims about run_sql.py, specification SpecSql                          *)

\* the statements executed so far, in the order of their execution
Executed == SelectSeq(out, LAMBDA l : l.what \in {"OK", "ERROR"})

\* the statements of the file that are not comments, in file order
NonComment == {n \in 1..Len(input) : ~is_only_comments(input[n])}

AnyError == \E n \in 1..Len(out) : out[n].what = "ERROR"

\* C25: the non-comment statements are executed one at a time in file order; after a
\* failure with --tolerate-errors every later statement is still attempted and the exit
\* status is 0; after a failure without it no later statement is executed and the exit
\* status is 1.
C25_ErrorPolicy ==
    /\ \A n \in 1..Len(Executed) : Executed[n].idx \in NonComment
    /\ \A m, n \in 1..Len(Executed) : m < n => Executed[m].idx < Executed[n].idx
    /\ pc = "run" =>
          {Executed[n].idx : n \in 1..Len(Executed)} = {n \in NonComment : n < i}
    /\ (AnyError /\ tokens.tolerate_errors /\ pc = "exit") =>
          /\ result = 0
          /\ {Executed[n].idx : n \in 1..Len(Executed)} = NonComment
    /\ (AnyError /\ ~tokens.tolerate_errors) =>
          /\ pc = "exit"
          /\ result = 1
          /\ out[Len(out)].what = "ERROR"
          /\ \A n \in 1..(Len(out) - 1) : out[n].what # "ERROR"
          /\ \A n \in 1..Len(Executed) : Executed[n].idx <= out[Len(out)].idx

\* a run with --tolerate-errors ended after a statement failed and a later one ran
C25_Witness ==
    /\ pc = "exit"
    /\ tokens.tolerate_errors
    /\ \E m, n \in 1..Len(Executed) :
          m < n /\ Executed[m].what = "ERROR" /\ Executed[n].what = "OK"

---------------------------------------------------------------------------
(* Claims about run_proposed_functions.py, specification SpecFn *)

\* the header of the block with sequence number seq carries
\* "(original statements a..b)" itself
OwnHeaderHasRange(seq) ==
    LET h   == HeaderMatches(input)[seq]
        pre == HeaderText \o Decimal(h.id) \o OrigOpen
    IN  /\ StartsWith(input, pre, h.start + 1)
        /\ RangeAt(input, h.start + Len(pre)) # <<>>

FallbackLines == {n \in 1..Len(out) : out[n].what = "FALLBACK EXEC"}

\* C26: the original statement range of a block is executed only after the block's own
\* execution raised, only when the block's header carries an
\* "(original statements a..b)" range, and at most once; a block that does not look like
\* a function or DO block is never executed; every block is processed whatever happened
\* to the blocks before it.
C26_FallbackOrdering ==
    /\ \A n \in FallbackLines :
          /\ n > 1
          /\ out[n - 1] = LogLine(out[n].idx, "FIRST ATTEMPT ERROR")
          /\ OwnHeaderHasRange(out[n].idx)
          /\ \A k \in FallbackLines : out[k].idx = out[n].idx => k = n
    /\ \A n \in 1..Len(out) :
          out[n].what \in {"EXEC", "FALLBACK EXEC"}
              => LooksLikeFunction(tokens[out[n].idx].block)
    /\ pc = "done" => \A s \in 1..Len(tokens) : \E n \in 1..Len(out) : out[n].idx = s

---------------------------------------------------------------------------
(* Claims about apply_manual_fixes.py, specification SpecFix *)

\* C27: when --user is 'postgres' in any case, the run ends with exit status 2 and has
\* done nothing outside the process: the input file is not read, no connection is
\* opened, no attempted_fix file is written, nothing is appended to the log and no
\* block is executed.
C27_PostgresRefused ==
    Lower(bodies.user) = userPostgres =>
        /\ pc \in {"args", "refused"}
        /\ out = <<>>
        /\ tokens = <<>>
        /\ pc = "refused" => result = 2

\* C27: the user POSTGRES or Postgres is refused for a file that holds a block
C27_Witness ==
    /\ pc = "refused"
    /\ result = 2
    /\ bodies.user # userPostgres
    /\ FixEntries(input) # <<>>

---------------------------------------------------------------------------
(* Claims about auto_fix_top_n_safe.py, specification SpecSafe *)

\* the blocks of the file: a header line of a proposed fix and the text up to the
\* next header line
FileBlocks ==
    LET hs == HeaderMatches(input)
    IN  [n \in 1..Len(hs) |->
            [id   |-> hs[n].id,
             text |-> PySlice(input, hs[n].start,
                              IF n < Len(hs) THEN hs[n + 1].start ELSE Len(input))]]

CopiedInto(block, text) == \E k \in 1..Len(text) : StartsWith(text, block, k)

\* C28: manual_review_fixes.sql changes only when the answer to the prompt is y; for any
\* other answer and when no marker is found it stays as it was; every block whose id is
\* not in the list of ids is in the output byte for byte.
C28_OverwriteOnlyOnYes ==
    /\ [][input' # input => (pc' = "overwritten" /\ Upper(Strip(stack'[1])) = <<"Y">>)]_vars
    /\ [](pc \in {"prompt", "kept"} =>
            \A n \in 1..Len(FileBlocks) :
                ~InList(FileBlocks[n].id, bodies.ids)
                    => CopiedInto(FileBlocks[n].text, result.out))

---------------------------------------------------------------------------
(* Claims about repair_plpgsql_parser.py, specification SpecV1 *)

\* C30: after the IF/END IF fix and the BEGIN/END fix of a block, count_tokens of the
\* repaired dollar-protected text reports as many IF as END IF and as many BEGIN as END.
C30_CountsBalanced ==
    pc \in {"restore", "done"} =>
        /\ count_tokens(out).if = count_tokens(out).end_if
        /\ count_tokens(out).begin = count_tokens(out).end

=============================================================================
